---------------------------- MODULE Spec2Model ----------------------------
(***************************************************************************)
(* Gesture recognition engine of Cursor-Tng: the three revisions of the   *)
(* GestureDetector class found in the repository.                          *)
(*                                                                         *)
(*   "first" : src/unnamed/part_004, lines 1-491   (static poses only)     *)
(*   "main"  : src/src/utils/GestureDetector.ts    (static + motion)       *)
(*   "asm"   : src/unnamed/part_004, lines 493-1810                        *)
(*             (activity state machine, motion gestures only)              *)
(*                                                                         *)
(* Units.  Time is in milliseconds.  A finger extension is an integer in   *)
(* 0..ExtGrid standing for the value n/ExtGrid of the source.  A score is  *)
(* an integer in 0..ScoreOne standing for n/ScoreOne, so that the weighted *)
(* mean and the 1.15 multiplier of matchFingerExtensionPattern are exact.  *)
(* A coordinate is an integer counting hundredths (the movementThreshold   *)
(* of the asm revision is 0.01 = 1 unit).                                  *)
(***************************************************************************)
EXTENDS Integers, Sequences, FiniteSets, TLC

VARIABLES
    version,   \* which revision of GestureDetector this behaviour runs
    scenario,  \* the inputs the environment draws from in this behaviour
    det,       \* the fields of the GestureDetector object
    now,       \* Date.now()
    loops,     \* the executions of detectionLoop: id -> position
    ticks,     \* number of inference results delivered after the warm-up
    tick,      \* observation: what the most recent handler did
    prevTick,  \* observation: the tick before it
    prevEmit,  \* observation: the gesture listener call before this handler
    probe      \* observation: the result of a direct call of matchSequence,
               \* or what the two runs of a replay produced

vars == <<version, scenario, det, now, loops, ticks, tick, prevTick, prevEmit, probe>>

----------------------------------------------------------------------------
(* Values *)

Null == "null"
Undefined == "undefined"
NoScore == 0 - 1

Min(a, b) == IF a < b THEN a ELSE b
Abs(a) == IF a < 0 THEN 0 - a ELSE a

ExtGrid == 10
weights == <<8, 12, 12, 10, 12>>
ScoreOne == (8 + 12 + 12 + 10 + 12) * ExtGrid * 100
Pct(p) == (p * ScoreOne) \div 100

\* MotionPattern of src/src/types/gesture.ts together with the members the
\* asm revision uses (ZIGZAG, TWO_HAND_CLAP, V_SHAPE, W_SHAPE).
MotionPattern ==
    {"NONE", "CIRCLE_CLOCKWISE", "CIRCLE_COUNTERCLOCKWISE", "VERTICAL_UP_DOWN",
     "HORIZONTAL_LEFT_RIGHT", "FORWARD_THRUST", "WAVE", "TRIANGLE", "ZIG_ZAG",
     "ZIGZAG", "TWO_HAND_CLAP", "V_SHAPE", "W_SHAPE"}

----------------------------------------------------------------------------
(* Program constants *)

historyLength == 30
gestureCooldownMsFirst == 1000
gestureCooldownMsMain == 300
gestureCooldownMsASM == 200
noGestureCooldown == 500
motionSamplingRate == 100
motionHistoryMax == 30
noHandResetMs == 1000
gestureInactivityTimeout == 500
movementThreshold == 1
maxHistorySize == 20
patternGraceMs == 1500

gestureCooldownMs(v) ==
    CASE v = "first" -> gestureCooldownMsFirst
      [] v = "main" -> gestureCooldownMsMain
      [] v = "asm" -> gestureCooldownMsASM

----------------------------------------------------------------------------
(* Static pose matching *)

RECURSIVE WeightedSum(_, _, _)
WeightedSum(extensions, gesturePattern, i) ==
    IF i > Len(extensions) THEN 0
    ELSE LET extensionDiff == Abs(extensions[i] - gesturePattern[i])
             fingerScore == ExtGrid - Min(extensionDiff, ExtGrid)
         IN  fingerScore * weights[i] + WeightedSum(extensions, gesturePattern, i + 1)

\* score = min(matchScore / totalWeight * 1.15, 1.0), in units of 1/ScoreOne
matchFingerExtensionPattern(extensions, gesturePattern) ==
    IF Len(extensions) # Len(gesturePattern) THEN 0
    ELSE Min(WeightedSum(extensions, gesturePattern, 1) * 115, ScoreOne)

NoMatch == [isMatch |-> FALSE, score |-> 0]

\* variant: a static gesture matches whatever its score is
Mutant_StaticAlwaysMatches(pose, gesture) ==
    [isMatch |-> TRUE, score |-> matchFingerExtensionPattern(pose.ext, gesture.fingerPositions)]

StaticMatch(pose, gesture) ==
    IF pose.landmarks < 21 THEN NoMatch
    ELSE LET s == matchFingerExtensionPattern(pose.ext, gesture.fingerPositions)
         IN  [isMatch |-> s > gesture.threshold, score |-> s]

IsMotionTyped(gesture) ==
    gesture.motionPattern # Undefined /\ gesture.motionPattern # "NONE"

matchGestureFirst(d, pose, gesture) == StaticMatch(pose, gesture)

\* variant: the hand the gesture requires is not looked at
Mutant_MatchIgnoringHand(d, pose, gesture) ==
    IF IsMotionTyped(gesture)
    THEN IF d.activeMotionPattern = gesture.motionPattern
         THEN [isMatch |-> TRUE, score |-> Pct(90)]
         ELSE NoMatch
    ELSE StaticMatch(pose, gesture)

\* variant: a motion-typed gesture must also match the sample's fingers
Mutant_MatchMotionByFingers(d, pose, gesture) ==
    IF gesture.handRequired # "any" /\ gesture.handRequired # pose.handedness
    THEN NoMatch
    ELSE IF IsMotionTyped(gesture)
         THEN IF d.activeMotionPattern = gesture.motionPattern
                 /\ StaticMatch(pose, gesture).isMatch
              THEN [isMatch |-> TRUE, score |-> Pct(90)]
              ELSE NoMatch
         ELSE StaticMatch(pose, gesture)

matchGestureMain(d, pose, gesture) ==
    IF gesture.handRequired # "any" /\ gesture.handRequired # pose.handedness
    THEN NoMatch
    ELSE IF IsMotionTyped(gesture)
         THEN IF d.activeMotionPattern = gesture.motionPattern
              THEN [isMatch |-> TRUE, score |-> Pct(90)]
              ELSE NoMatch
         ELSE StaticMatch(pose, gesture)

matchGestureASM(d, pose, gesture) ==
    IF gesture.handRequired # "any" /\ gesture.handRequired # pose.handedness
    THEN NoMatch
    ELSE IF IsMotionTyped(gesture)
         THEN IF d.activeMotionPattern = gesture.motionPattern
              THEN [isMatch |-> TRUE, score |-> Pct(95)]
              ELSE NoMatch
         ELSE StaticMatch(pose, gesture)

matchGesture(v, d, pose, gesture) ==
    CASE v = "first" -> matchGestureFirst(d, pose, gesture)
      [] v = "main" -> matchGestureMain(d, pose, gesture)
      [] v = "asm" -> matchGestureASM(d, pose, gesture)

----------------------------------------------------------------------------
(* Listener calls.  det.out is the list of listener calls the handler that *)
(* ran last has made, in call order.                                       *)

Rat(n, k) == [num |-> n, den |-> k]
\* variant: every fully matching window replaces the best score
Mutant_RatAlways(a, b) == TRUE
\* variant: a comparison with NaN is true
Mutant_RatNaNGreater(a, b) ==
    IF a.den = 0 \/ b.den = 0 THEN TRUE ELSE a.num * b.den > b.num * a.den
\* a > b on numbers n/k; a quotient by zero is NaN and compares false
RatGT(a, b) == IF a.den = 0 \/ b.den = 0 THEN FALSE ELSE a.num * b.den > b.num * a.den

NoGesture ==
    [id |-> Null, name |-> Null, threshold |-> 0, fingerPositions |-> <<>>,
     motionPattern |-> Undefined, handRequired |-> Undefined]

GestureCall(g, s, t, who) ==
    [kind |-> "gesture", id |-> g.id, score |-> Rat(s, 1), at |-> t, by |-> who, g |-> g]
SequenceCall(q, s, t) ==
    [kind |-> "sequence", id |-> q.id, score |-> s, at |-> t, by |-> "detectSequences",
     g |-> NoGesture]
PoseCall(t, who) ==
    [kind |-> "pose", id |-> Null, score |-> Rat(0, 1), at |-> t, by |-> who,
     g |-> NoGesture]

Call(d, c) == [d EXCEPT !.out = Append(@, c)]

----------------------------------------------------------------------------
(* Sequence matching (the same text in the three revisions) *)

\* variant: the whole history is searched
Mutant_SliceAll(history, n) == history

Slice(history, n) ==
    \* history.slice(-n); slice(-0) is the whole array
    IF n = 0 \/ n >= Len(history) THEN history
    ELSE SubSeq(history, Len(history) - n + 1, Len(history))

RECURSIVE WindowMatches(_, _, _, _, _, _)
WindowMatches(v, d, recentHistory, gestures, i, j) ==
    IF j > Len(gestures) THEN TRUE
    ELSE matchGesture(v, d, recentHistory[i + j - 1], gestures[j]).isMatch
         /\ WindowMatches(v, d, recentHistory, gestures, i, j + 1)

RECURSIVE WindowScore(_, _, _, _, _, _)
WindowScore(v, d, recentHistory, gestures, i, j) ==
    IF j > Len(gestures) THEN 0
    ELSE matchGesture(v, d, recentHistory[i + j - 1], gestures[j]).score
         + WindowScore(v, d, recentHistory, gestures, i, j + 1)

RECURSIVE SlideWindow(_, _, _, _, _, _, _)
SlideWindow(v, d, recentHistory, gestures, i, bestScore, isMatch) ==
    IF i > Len(recentHistory) - Len(gestures) + 1
    THEN [isMatch |-> isMatch, score |-> bestScore]
    ELSE IF WindowMatches(v, d, recentHistory, gestures, i, 1)
         THEN LET avgScore == Rat(WindowScore(v, d, recentHistory, gestures, i, 1),
                                  Len(gestures))
              IN  IF RatGT(avgScore, bestScore)
                  THEN SlideWindow(v, d, recentHistory, gestures, i + 1, avgScore, TRUE)
                  ELSE SlideWindow(v, d, recentHistory, gestures, i + 1, bestScore, isMatch)
         ELSE SlideWindow(v, d, recentHistory, gestures, i + 1, bestScore, isMatch)

matchSequence(v, d, history, sequence) ==
    IF Len(history) < Len(sequence.gestures)
    THEN [isMatch |-> FALSE, score |-> Rat(0, 1)]
    ELSE SlideWindow(v, d, Slice(history, Len(sequence.gestures) * 3),
                     sequence.gestures, 1, Rat(0, 1), FALSE)

\* variant: only the window that ends with the newest sample is notified
RECURSIVE Mutant_NewestWindowOnly(_, _, _, _)
Mutant_NewestWindowOnly(v, d, t, n) ==
    IF n > Len(d.registeredSequences) THEN d
    ELSE LET sequence == d.registeredSequences[n]
             match == matchSequence(v, d, Slice(d.handPoseHistory, Len(sequence.gestures)),
                                    sequence)
         IN  IF match.isMatch /\ d.onGestureSequenceDetectedCallback
             THEN Mutant_NewestWindowOnly(v, Call(d, SequenceCall(sequence, match.score, t)),
                                          t, n + 1)
             ELSE Mutant_NewestWindowOnly(v, d, t, n + 1)

RECURSIVE detectSequencesFrom(_, _, _, _)
detectSequencesFrom(v, d, t, n) ==
    IF n > Len(d.registeredSequences) THEN d
    ELSE LET sequence == d.registeredSequences[n]
             match == matchSequence(v, d, d.handPoseHistory, sequence)
         IN  IF match.isMatch /\ d.onGestureSequenceDetectedCallback
             THEN detectSequencesFrom(v, Call(d, SequenceCall(sequence, match.score, t)),
                                      t, n + 1)
             ELSE detectSequencesFrom(v, d, t, n + 1)

detectSequences(v, d, t) ==
    IF Len(d.handPoseHistory) < 2 THEN d ELSE detectSequencesFrom(v, d, t, 1)

----------------------------------------------------------------------------
(* Motion tracking.  geo stands for the geometry of the buffered wrist     *)
(* trajectory, which the environment supplies: for each trajectory test    *)
(* whether its geometric condition holds.  The tests apply their own       *)
(* minimum number of points to it.                                         *)

NoGeo ==
    [circular |-> "no", vertical |-> FALSE, horizontal |-> FALSE, forward |-> FALSE,
     wave |-> FALSE, zigzag |-> FALSE, clap |-> FALSE, wshape |-> FALSE, vshape |-> FALSE]

resetMotionTrackingMain(d) ==
    [d EXCEPT !.motionPositionHistory = <<>>,
              !.motionTrackingStartTime = 0,
              !.activeMotionPattern = Null]

detectMotionPatternMain(d, geo) ==
    LET n == Len(d.motionPositionHistory)
        isCircle == geo.circular # "no" /\ n >= 15
        isVertical == n >= 10 /\ geo.vertical
        isHorizontal == n >= 10 /\ geo.horizontal
        isForwardThrust == n >= 10 /\ geo.forward
        isWave == n >= 15 /\ geo.wave
    IN  IF n < 10 THEN d
        ELSE IF isCircle
             THEN [d EXCEPT !.activeMotionPattern =
                       IF geo.circular = "cw" THEN "CIRCLE_CLOCKWISE"
                       ELSE "CIRCLE_COUNTERCLOCKWISE"]
        ELSE IF isVertical THEN [d EXCEPT !.activeMotionPattern = "VERTICAL_UP_DOWN"]
        ELSE IF isHorizontal THEN [d EXCEPT !.activeMotionPattern = "HORIZONTAL_LEFT_RIGHT"]
        ELSE IF isForwardThrust THEN [d EXCEPT !.activeMotionPattern = "FORWARD_THRUST"]
        ELSE IF isWave THEN [d EXCEPT !.activeMotionPattern = "WAVE"]
        ELSE [d EXCEPT !.activeMotionPattern = Null]

\* variant: nothing is evicted
Mutant_PushNoEvict(buffer, x, cap) == Append(buffer, x)
\* variant: a full buffer drops the entry that arrives
Mutant_PushDropNewest(buffer, x, cap) == IF Len(buffer) >= cap THEN buffer ELSE Append(buffer, x)

\* push(x), then shift() when the length exceeds cap
Push(buffer, x, cap) ==
    LET b == Append(buffer, x) IN IF Len(b) > cap THEN Tail(b) ELSE b

trackHandMotionMain(d, handPose, t, geo) ==
    IF (t - d.lastMotionSampleTime) >= motionSamplingRate
    THEN LET d1 == [d EXCEPT !.motionPositionHistory = Push(@, handPose.wrist, motionHistoryMax),
                             !.lastMotionSampleTime = t]
             n == Len(d1.motionPositionHistory)
         IN  IF n % 10 = 0 /\ n >= 10 THEN detectMotionPatternMain(d1, geo) ELSE d1
    ELSE d

----------------------------------------------------------------------------
(* The trajectory tests of the asm revision, computed on the buffer.  A     *)
(* coordinate unit is 0.01; lengths are summed in units of 1/Fine, each     *)
(* square root rounded down, so a sum is below the exact one by less than   *)
(* one hundredth of a unit per term.                                        *)

Fine == 100

RECURSIVE SqrtBetween(_, _, _)
SqrtBetween(n, lo, hi) ==
    IF lo >= hi THEN lo
    ELSE LET mid == (lo + hi + 1) \div 2
         IN  IF mid * mid <= n THEN SqrtBetween(n, mid, hi) ELSE SqrtBetween(n, lo, mid - 1)

\* Math.sqrt, rounded down
ISqrt(n) == SqrtBetween(n, 0, 40000)

\* Math.sqrt(dx * dx + dy * dy), in units of 1/Fine
Movement(dx, dy) == ISqrt(Fine * Fine * (dx * dx + dy * dy))

\* history[i] - history[i-1]
Step(history, i) ==
    [dx |-> history[i].x - history[i - 1].x, dy |-> history[i].y - history[i - 1].y]

\* Math.atan2(v.dy, v.dx) is kept as the vector; atan2(0, 0) is 0
Dir(v) == IF v.dx = 0 /\ v.dy = 0 THEN [dx |-> 1, dy |-> 0] ELSE v
NoDirection == [dx |-> 1, dy |-> 0]
IsZeroAngle(v) == v.dy = 0 /\ v.dx >= 0

\* where atan2 lies: 0 for (-pi, 0), 1 for 0, 2 for (0, pi), 3 for pi
AngleRegion(v) ==
    IF v.dy < 0 THEN 0 ELSE IF v.dy > 0 THEN 2 ELSE IF v.dx >= 0 THEN 1 ELSE 3

\* atan2(u) > atan2(v)
AngleGT(u, v) ==
    IF AngleRegion(u) # AngleRegion(v) THEN AngleRegion(u) > AngleRegion(v)
    ELSE AngleRegion(u) \in {0, 2} /\ v.dx * u.dy - v.dy * u.dx > 0

\* atan2(u) > atan2(v) + pi/2: v turned by a quarter has the angle
\* atan2(v) + pi/2 as long as that is at most pi
ExceedsByQuarter(u, v) ==
    /\ ~(v.dx < 0 /\ v.dy >= 0)
    /\ AngleGT(u, [dx |-> 0 - v.dy, dy |-> v.dx])

\* Math.abs(currentDirection - lastDirection) > Math.PI/2
DirectionChanged(currentDirection, lastDirection) ==
    \/ ExceedsByQuarter(Dir(currentDirection), Dir(lastDirection))
    \/ ExceedsByQuarter(Dir(lastDirection), Dir(currentDirection))

\* the number of places where neighbours differ
RECURSIVE Alternations(_, _)
Alternations(directions, i) ==
    IF i > Len(directions) THEN 0
    ELSE (IF directions[i] # directions[i - 1] THEN 1 ELSE 0) + Alternations(directions, i + 1)

RECURSIVE ZigzagLoop(_, _, _)
ZigzagLoop(history, i, a) ==
    IF i > Len(history) THEN a
    ELSE LET s == Step(history, i)
             movement == Movement(s.dx, s.dy)
             moved == s.dx * s.dx + s.dy * s.dy > 1
             horizontal == 10 * Abs(s.dy) < 4 * Abs(s.dx) /\ moved
             diagonal == ~horizontal /\ 10 * Abs(s.dy) > 6 * Abs(s.dx) /\ moved
             length == IF horizontal THEN a.currentSegmentLength + movement
                       ELSE IF diagonal THEN movement ELSE a.currentSegmentLength
             changed == ~IsZeroAngle(a.lastDirection)
                        /\ DirectionChanged(s, a.lastDirection) /\ moved
         IN  ZigzagLoop(history, i + 1,
                 [horizontalSegments |-> a.horizontalSegments + (IF horizontal THEN 1 ELSE 0),
                  diagonalSegments |-> a.diagonalSegments + (IF diagonal THEN 1 ELSE 0),
                  lastDirection |-> Dir(s),
                  totalMovement |-> a.totalMovement + movement,
                  directionChanges |-> a.directionChanges + (IF changed THEN 1 ELSE 0),
                  currentSegmentLength |-> length,
                  segmentDirections |->
                      IF horizontal /\ length > 5 * Fine THEN Append(a.segmentDirections, 0)
                      ELSE IF diagonal THEN Append(a.segmentDirections, 1)
                      ELSE a.segmentDirections])

detectZigzagMotion(history) ==
    IF Len(history) < 6 THEN FALSE
    ELSE LET a == ZigzagLoop(history, 2,
                      [horizontalSegments |-> 0, diagonalSegments |-> 0,
                       lastDirection |-> NoDirection, totalMovement |-> 0,
                       directionChanges |-> 0, currentSegmentLength |-> 0,
                       segmentDirections |-> <<>>])
             patternConsistency == Alternations(a.segmentDirections, 2)
         IN  /\ a.horizontalSegments >= 1
             /\ a.diagonalSegments >= 1
             /\ a.directionChanges >= 1
             /\ a.totalMovement > 15 * Fine
             /\ patternConsistency >= 1

RECURSIVE SumOf(_, _)
SumOf(values, i) == IF i > Len(values) THEN 0 ELSE values[i] + SumOf(values, i + 1)

RECURSIVE SumOfSquares(_, _)
SumOfSquares(values, i) ==
    IF i > Len(values) THEN 0 ELSE values[i] * values[i] + SumOfSquares(values, i + 1)

\* n * n times the variance of values (n their number)
ScaledVariance(values) ==
    Len(values) * SumOfSquares(values, 1) - SumOf(values, 1) * SumOf(values, 1)

RECURSIVE WShapeLoop(_, _, _)
WShapeLoop(history, i, a) ==
    IF i > Len(history) THEN a
    ELSE LET currentY == history[i].y
             yChange == currentY - a.lastY
             valley == 2 * yChange > 3 /\ ~a.isRising
             peak == ~valley /\ 2 * yChange < 0 - 3 /\ a.isRising
             peaks == a.peaks + (IF peak THEN 1 ELSE 0)
         IN  WShapeLoop(history, i + 1,
                 [peaks |-> peaks,
                  valleys |-> a.valleys + (IF valley THEN 1 ELSE 0),
                  lastY |-> currentY,
                  isRising |-> IF valley THEN TRUE ELSE IF peak THEN FALSE ELSE a.isRising,
                  totalVerticalMovement |-> a.totalVerticalMovement + Abs(yChange),
                  lastValleyY |-> IF valley THEN currentY ELSE a.lastValleyY,
                  peakDistances |->
                      IF peak /\ peaks > 1
                      THEN Append(a.peakDistances, Abs(currentY - a.lastValleyY))
                      ELSE a.peakDistances,
                  peakTimes |->
                      IF peak /\ peaks > 1
                      THEN Append(a.peakTimes, (i - 1) - a.lastPeakTime)
                      ELSE a.peakTimes,
                  lastPeakTime |-> IF peak THEN i - 1 ELSE a.lastPeakTime])

\* variant: any vertical movement above the floor counts as a W
Mutant_WShapeAnyMovement(history) ==
    Len(history) >= 6
    /\ WShapeLoop(history, 2,
                  [peaks |-> 0, valleys |-> 0, lastY |-> history[1].y,
                   isRising |-> FALSE, totalVerticalMovement |-> 0,
                   lastValleyY |-> 0, peakDistances |-> <<>>, peakTimes |-> <<>>,
                   lastPeakTime |-> 0]).totalVerticalMovement > 10

detectWShapeMotion(history) ==
    IF Len(history) < 6 THEN FALSE
    ELSE LET a == WShapeLoop(history, 2,
                      [peaks |-> 0, valleys |-> 0, lastY |-> history[1].y,
                       isRising |-> FALSE, totalVerticalMovement |-> 0,
                       lastValleyY |-> 0, peakDistances |-> <<>>, peakTimes |-> <<>>,
                       lastPeakTime |-> 0])
             n == Len(a.peakDistances)
         IN  /\ a.peaks >= 2
             /\ a.valleys >= 1
             /\ a.totalVerticalMovement > 10
             /\ n > 0
             /\ SumOf(a.peakDistances, 1) > 3 * n
             /\ ScaledVariance(a.peakDistances) < 200 * n * n
             /\ ScaledVariance(a.peakTimes) < 10 * n * n

RECURSIVE VShapeLoop(_, _, _)
VShapeLoop(history, i, a) ==
    IF i > Len(history) THEN a
    ELSE LET s == Step(history, i)
             diagonal == 10 * Abs(s.dy) > 4 * Abs(s.dx) /\ s.dx * s.dx + s.dy * s.dy > 1
             changed == diagonal /\ ~IsZeroAngle(a.lastDirection)
                        /\ DirectionChanged(s, a.lastDirection)
         IN  VShapeLoop(history, i + 1,
                 [diagonalSegments |-> a.diagonalSegments,
                  lastDirection |-> Dir(s),
                  totalMovement |-> a.totalMovement + Movement(s.dx, s.dy),
                  directionChanges |-> a.directionChanges + (IF changed THEN 1 ELSE 0)])

\* diagonalSegments is declared as 0 and never assigned in the loop
detectVShapeMotion(history) ==
    IF Len(history) < 4 THEN FALSE
    ELSE LET a == VShapeLoop(history, 2,
                      [diagonalSegments |-> 0, lastDirection |-> NoDirection,
                       totalMovement |-> 0, directionChanges |-> 0])
         IN  /\ a.diagonalSegments >= 1
             /\ a.directionChanges >= 1
             /\ a.totalMovement > 10 * Fine

\* lastTime starts as this.lastMotionSampleTime and is assigned
\* this.lastMotionSampleTime again in every round
RECURSIVE TwoHandClapLoop(_, _, _, _)
TwoHandClapLoop(history, lastMotionSampleTime, i, a) ==
    IF i > Len(history) THEN a
    ELSE LET currentY == history[i].y
             currentX == history[i].x
             timeDiff == lastMotionSampleTime - a.lastTime
             verticalSpeed == Rat(Abs(currentY - a.lastY), timeDiff)
             timed == timeDiff > 0
         IN  TwoHandClapLoop(history, lastMotionSampleTime, i + 1,
                 [maxVerticalSpeed |->
                      IF timed /\ RatGT(verticalSpeed, a.maxVerticalSpeed)
                      THEN verticalSpeed ELSE a.maxVerticalSpeed,
                  verticalMovement |->
                      a.verticalMovement + (IF timed THEN Abs(currentY - a.lastY) ELSE 0),
                  horizontalMovement |->
                      a.horizontalMovement
                          + (IF timed THEN Abs(currentX - history[i - 1].x) ELSE 0),
                  lastY |-> currentY,
                  lastTime |-> lastMotionSampleTime])

\* speeds are in coordinate units per ms: 0.3 is 30 units per ms
detectTwoHandClap(history, lastMotionSampleTime) ==
    IF Len(history) < 4 THEN FALSE
    ELSE LET a == TwoHandClapLoop(history, lastMotionSampleTime, 2,
                      [maxVerticalSpeed |-> Rat(0, 1), verticalMovement |-> 0,
                       horizontalMovement |-> 0, lastY |-> history[1].y,
                       lastTime |-> lastMotionSampleTime])
         IN  /\ RatGT(a.maxVerticalSpeed, Rat(30, 1))
             /\ a.verticalMovement > 8
             /\ 20 * a.verticalMovement > 30 * a.horizontalMovement + 3

----------------------------------------------------------------------------
(* The circle tests.  Angles are in milliradians; atan is taken from        *)
(* atan(z) = z (pi/4 + 0.273 (1 - z)) on 0 <= z <= 1, which is within 0.004 *)
(* of the arc tangent.  Positions are taken relative to the centroid and    *)
(* multiplied by the number of points, which keeps them integers.           *)

Coarse == 10
PiMilli == 3142

AtanMilli(z) == (z * (785 + (273 * (1000 - z)) \div 1000)) \div 1000

\* Math.atan2(y, x)
Atan2Milli(y, x) ==
    LET a == Abs(x)
        b == Abs(y)
        r == IF a = 0 /\ b = 0 THEN 0
             ELSE IF b <= a THEN AtanMilli((1000 * b) \div a)
             ELSE 1571 - AtanMilli((1000 * a) \div b)
        angle == IF x >= 0 THEN r ELSE PiMilli - r
    IN  IF y < 0 THEN 0 - angle ELSE angle

\* the points relative to the centroid, times the number of points
Centred(points) ==
    LET n == Len(points)
        sumX == SumOf([i \in 1..n |-> points[i].x], 1)
        sumY == SumOf([i \in 1..n |-> points[i].y], 1)
    IN  [i \in 1..n |-> [dx |-> n * points[i].x - sumX, dy |-> n * points[i].y - sumY]]

Cross(u, v) == u.dx * v.dy - u.dy * v.dx
Dot(u, v) == u.dx * v.dx + u.dy * v.dy

\* angles[i] - angles[i - 1], brought back into [-pi, pi]
AngleChange(u, v) ==
    IF Cross(Dir(u), Dir(v)) = 0 /\ Dot(Dir(u), Dir(v)) < 0
    THEN IF AngleGT(Dir(v), Dir(u)) THEN PiMilli ELSE 0 - PiMilli
    ELSE Atan2Milli(Cross(Dir(u), Dir(v)), Dot(Dir(u), Dir(v)))

\* the distances from the centroid, in units of 1/(n * Coarse)
Distances(points) ==
    LET c == Centred(points)
    IN  [i \in 1..Len(points) |-> ISqrt(Coarse * Coarse * (c[i].dx * c[i].dx + c[i].dy * c[i].dy))]

\* the length of the path, in the same units
RECURSIVE PathLength(_, _)
PathLength(points, i) ==
    IF i > Len(points) THEN 0
    ELSE LET s == Step(points, i)
             k == Len(points) * Coarse
         IN  ISqrt(k * k * (s.dx * s.dx + s.dy * s.dy)) + PathLength(points, i + 1)

\* part_004, detectCircularMotion
detectCircularMotionASM(history) ==
    LET n == Len(history)
        c == Centred(history)
        changes == [i \in 1..(n - 1) |-> AngleChange(c[i], c[i + 1])]
        totalAngularChange == SumOf(changes, 1)
        clockwiseCount == Cardinality({i \in 1..(n - 1) : changes[i] > 0})
        counterClockwiseCount == Cardinality({i \in 1..(n - 1) : changes[i] < 0})
        distance == Distances(history)
        totalDistance == SumOf(distance, 1)
        totalDeviation == SumOf([i \in 1..n |-> Abs(n * distance[i] - totalDistance)], 1)
        totalPathLength == PathLength(history, 2)
        \* deviationRatio < 0.5, with 0.001 = n * Coarse / 10 of the units
        closeToCircle == 2 * totalDeviation < n * totalDistance + (n * n * n * Coarse) \div 10
        \* circularityRatio against 0.7 and 1.3, with 2 pi = 710/113
        ideal == 710 * totalDistance + (113 * n * n * Coarse) \div 10
        isCircular == /\ Abs(totalAngularChange) > 1500
                      /\ closeToCircle
                      /\ 1130 * n * totalPathLength > 7 * ideal
                      /\ 1130 * n * totalPathLength < 13 * ideal
        most == IF clockwiseCount > counterClockwiseCount
                THEN clockwiseCount ELSE counterClockwiseCount
        consistent == clockwiseCount + counterClockwiseCount > 0
                      /\ 100 * most > 55 * (clockwiseCount + counterClockwiseCount)
    IN  IF n < 5 THEN [detected |-> FALSE, clockwise |-> FALSE]
        ELSE [detected |-> isCircular /\ consistent,
              clockwise |-> clockwiseCount > counterClockwiseCount]

\* GestureDetector.ts, detectCircularMotion: the variance of the distances is
\* compared with 0.15 times their mean (0.15 is 15 coordinate units)
detectCircularMotionMain(points) ==
    LET n == Len(points)
        c == Centred(points)
        distances == Distances(points)
        meanDistance == SumOf(distances, 1) \div n
        totalDistanceVariance ==
            SumOfSquares([i \in 1..n |-> distances[i] - meanDistance], 1)
        distanceVariance == totalDistanceVariance \div n
        sumCrossProduct == SumOf([i \in 1..(n - 1) |-> Cross(c[i], c[i + 1])], 1)
        isCircular == distanceVariance < 15 * n * Coarse * meanDistance /\ n >= 15
    IN  [detected |-> isCircular, clockwise |-> sumCrossProduct < 0]

----------------------------------------------------------------------------
(* Motion tracking of the asm revision *)

\* variant: partial reset, the buffer keeps its positions
Mutant_ResetKeepsBuffer(d) ==
    [d EXCEPT !.activeMotionPattern = "NONE", !.isGestureActive = FALSE,
              !.lastSignificantMovement = 0]

\* variant: the reset leaves the activity flag as it is
Mutant_ResetKeepsActive(d) ==
    [d EXCEPT !.motionPositionHistory = <<>>,
              !.motionTrackingStartTime = 0,
              !.activeMotionPattern = "NONE",
              !.lastSignificantMovement = 0]

resetMotionTrackingASM(d) ==
    [d EXCEPT !.motionPositionHistory = <<>>,
              !.motionTrackingStartTime = 0,
              !.activeMotionPattern = "NONE",
              !.isGestureActive = FALSE,
              !.lastSignificantMovement = 0]

\* variant: classification is attempted on a buffer of any length
Mutant_ClassifyAnyLength(d, geo, t) ==
    IF geo.circular # "no"
    THEN [d EXCEPT !.activeMotionPattern =
              IF geo.circular = "cw" THEN "CIRCLE_CLOCKWISE" ELSE "CIRCLE_COUNTERCLOCKWISE"]
    ELSE IF geo.zigzag THEN [d EXCEPT !.activeMotionPattern = "ZIGZAG"]
    ELSE IF geo.wshape THEN [d EXCEPT !.activeMotionPattern = "W_SHAPE"]
    ELSE IF d.activeMotionPattern # "NONE" /\ (t - d.lastMotionSampleTime) > patternGraceMs
         THEN [d EXCEPT !.activeMotionPattern = "NONE"]
    ELSE d

\* variant: the zigzag test is asked before the circular one
Mutant_ZigzagFirst(d, geo, t) ==
    LET n == Len(d.motionPositionHistory)
    IN  IF n < 5 THEN d
        ELSE IF n >= 6 /\ geo.zigzag THEN [d EXCEPT !.activeMotionPattern = "ZIGZAG"]
        ELSE IF geo.circular # "no"
             THEN [d EXCEPT !.activeMotionPattern =
                       IF geo.circular = "cw" THEN "CIRCLE_CLOCKWISE"
                       ELSE "CIRCLE_COUNTERCLOCKWISE"]
        ELSE IF n >= 6 /\ geo.wshape THEN [d EXCEPT !.activeMotionPattern = "W_SHAPE"]
        ELSE IF d.activeMotionPattern # "NONE" /\ (t - d.lastMotionSampleTime) > patternGraceMs
             THEN [d EXCEPT !.activeMotionPattern = "NONE"]
        ELSE d

\* geo holds what the five trajectory tests return on the buffer of d
detectMotionPatternASM(d, geo, t) ==
    LET n == Len(d.motionPositionHistory)
        circular == n >= 5 /\ geo.circular # "no"
        zigzagResult == n >= 6 /\ geo.zigzag
        twoHandClapResult == n >= 4 /\ geo.clap
        wShapeResult == n >= 6 /\ geo.wshape
        vShapeResult == n >= 4 /\ geo.vshape
    IN  IF n < 5 THEN d
        ELSE IF circular
             THEN [d EXCEPT !.activeMotionPattern =
                       IF geo.circular = "cw" THEN "CIRCLE_CLOCKWISE"
                       ELSE "CIRCLE_COUNTERCLOCKWISE"]
        ELSE IF zigzagResult THEN [d EXCEPT !.activeMotionPattern = "ZIGZAG"]
        ELSE IF twoHandClapResult THEN [d EXCEPT !.activeMotionPattern = "TWO_HAND_CLAP"]
        ELSE IF wShapeResult THEN [d EXCEPT !.activeMotionPattern = "W_SHAPE"]
        ELSE IF vShapeResult THEN [d EXCEPT !.activeMotionPattern = "V_SHAPE"]
        ELSE IF d.activeMotionPattern # "NONE" /\ (t - d.lastMotionSampleTime) > patternGraceMs
             THEN [d EXCEPT !.activeMotionPattern = "NONE"]
        ELSE d

\* movement > movementThreshold, compared on the squares
Significant(wrist, lastPos) ==
    LET dx == wrist.x - lastPos.x
        dy == wrist.y - lastPos.y
        dz == wrist.z - lastPos.z
    IN  dx * dx + dy * dy + dz * dz > movementThreshold * movementThreshold

\* variant: a sample without significant movement ends the gesture at once
Mutant_TrackNoHesitation(d, handPose, t, geo) ==
    LET wrist == handPose.wrist
        h == d.motionPositionHistory
        hasSignificantMovement ==
            IF Len(h) > 0 THEN Significant(wrist, h[Len(h)]) ELSE TRUE
    IN  IF hasSignificantMovement
        THEN LET d2 == [d EXCEPT !.lastSignificantMovement = t,
                                 !.isGestureActive = TRUE,
                                 !.motionPositionHistory = Push(@, wrist, maxHistorySize),
                                 !.lastMotionSampleTime = t]
             IN  IF Len(d2.motionPositionHistory) >= 3
                 THEN detectMotionPatternASM(d2, geo, t)
                 ELSE d2
        ELSE resetMotionTrackingASM(d)

trackHandMotionASM(d, handPose, t, geo) ==
    LET wrist == handPose.wrist
        h == d.motionPositionHistory
        hasSignificantMovement ==
            IF Len(h) > 0 THEN Significant(wrist, h[Len(h)]) ELSE TRUE
        d1 == IF hasSignificantMovement
              THEN [d EXCEPT !.lastSignificantMovement = t, !.isGestureActive = TRUE]
              ELSE IF t - d.lastSignificantMovement > gestureInactivityTimeout
                   THEN resetMotionTrackingASM([d EXCEPT !.isGestureActive = FALSE])
                   ELSE d
    IN  IF hasSignificantMovement
        THEN LET d2 == [d1 EXCEPT !.motionPositionHistory = Push(@, wrist, maxHistorySize),
                                  !.lastMotionSampleTime = t]
             IN  IF d2.isGestureActive /\ Len(d2.motionPositionHistory) >= 3
                 THEN detectMotionPatternASM(d2, geo, t)
                 ELSE d2
        ELSE d1

----------------------------------------------------------------------------
(* Gesture emission *)

NoBest == [found |-> FALSE, gesture |-> NoGesture, score |-> 0]

\* the loop "for (const gesture of this.registeredGestures)" of the first and
\* the main revision: a later match replaces the best one only with a greater score
RECURSIVE FindBest(_, _, _, _, _)
FindBest(v, d, currentPose, n, bestMatch) ==
    IF n > Len(d.registeredGestures) THEN bestMatch
    ELSE LET gesture == d.registeredGestures[n]
             match == matchGesture(v, d, currentPose, gesture)
         IN  IF match.isMatch /\ (~bestMatch.found \/ match.score > bestMatch.score)
             THEN FindBest(v, d, currentPose, n + 1,
                           [found |-> TRUE, gesture |-> gesture, score |-> match.score])
             ELSE FindBest(v, d, currentPose, n + 1, bestMatch)

\* variant: the first registered gesture that matches is selected
Mutant_FirstMatch(v, d, currentPose) ==
    LET M == {n \in 1..Len(d.registeredGestures) :
                 matchGesture(v, d, currentPose, d.registeredGestures[n]).isMatch}
        n == CHOOSE m \in M : \A k \in M : m <= k
    IN  IF M = {} THEN NoBest
        ELSE [found |-> TRUE, gesture |-> d.registeredGestures[n],
              score |-> matchGesture(v, d, currentPose, d.registeredGestures[n]).score]

BestMatch(v, d, currentPose) == FindBest(v, d, currentPose, 1, NoBest)

\* variants of the debounce condition that the properties must tell apart
Mutant_TriggerAlways(d, id, t) == TRUE
Mutant_TriggerCooldownOnly(d, id, t) == (t - d.lastGestureTime) > gestureCooldownMsFirst
Mutant_TriggerNoRepeat(d, id, t) ==
    d.lastDetectedGesture # id /\ (t - d.lastGestureTime) > gestureCooldownMsMain

shouldTriggerCallbackFirst(d, id, t) ==
    LET isSameGesture == d.lastDetectedGesture = id
        isCooldownElapsed == (t - d.lastGestureTime) > gestureCooldownMsFirst
    IN  isSameGesture \/ isCooldownElapsed

detectGesturesFirst(d, currentPose, t) ==
    LET bestMatch == BestMatch("first", d, currentPose)
    IN  IF bestMatch.found /\ d.onGestureDetectedCallback
        THEN IF shouldTriggerCallbackFirst(d, bestMatch.gesture.id, t)
             THEN Call([d EXCEPT !.lastDetectedGesture = bestMatch.gesture.id,
                                 !.lastGestureTime = t],
                       GestureCall(bestMatch.gesture, bestMatch.score, t, "detectGestures"))
             ELSE d
        ELSE d

shouldTriggerCallbackMain(d, id, t) ==
    LET isSameGesture == d.lastDetectedGesture = id
        isCooldownElapsed == (t - d.lastGestureTime) > gestureCooldownMsMain
    IN  isSameGesture \/ (d.lastDetectedGesture # id /\ isCooldownElapsed)

detectGesturesMain(d, currentPose, t) ==
    LET bestMatch == BestMatch("main", d, currentPose)
    IN  IF bestMatch.found /\ d.onGestureDetectedCallback
        THEN IF shouldTriggerCallbackMain(d, bestMatch.gesture.id, t)
             THEN Call([d EXCEPT !.lastDetectedGesture = bestMatch.gesture.id,
                                 !.lastGestureTime = t],
                       GestureCall(bestMatch.gesture, bestMatch.score, t, "detectGestures"))
             ELSE d
        ELSE IF d.lastDetectedGesture # Null /\ (t - d.lastGestureTime) > noGestureCooldown
             THEN [d EXCEPT !.lastDetectedGesture = Null]
             ELSE d

\* the loop of the asm revision: the first registered gesture, in registration
\* order, of the right hand whose motionPattern is the active one
RECURSIVE FindMatchedASM(_, _, _)
FindMatchedASM(d, currentPose, n) ==
    IF n > Len(d.registeredGestures) THEN NoGesture
    ELSE LET gesture == d.registeredGestures[n]
         IN  IF gesture.handRequired # "any" /\ gesture.handRequired # currentPose.handedness
             THEN FindMatchedASM(d, currentPose, n + 1)
             ELSE IF gesture.motionPattern # Undefined
                     /\ d.activeMotionPattern = gesture.motionPattern
                  THEN gesture
                  ELSE FindMatchedASM(d, currentPose, n + 1)

\* the state in which detectGestures of the asm revision selects: after its own
\* calls of trackHandMotion and detectMotionPattern
BeforeSelectASM(d, currentPose, t, geo) ==
    detectMotionPatternASM(trackHandMotionASM(d, currentPose, t, geo), geo, t)

matchedGestureASM(d1, currentPose) ==
    IF d1.activeMotionPattern = "NONE" THEN NoGesture
    ELSE FindMatchedASM(d1, currentPose, 1)

isCooldownOverASM(d, t) == t - d.lastGestureTime >= gestureCooldownMsASM

detectGesturesASM(d, currentPose, t, geo) ==
    LET d1 == BeforeSelectASM(d, currentPose, t, geo)
        matchedGesture == matchedGestureASM(d1, currentPose)
    IN  IF matchedGesture = NoGesture THEN d1
        ELSE IF isCooldownOverASM(d1, t)
             THEN LET d2 == [d1 EXCEPT !.lastDetectedGesture = matchedGesture.name,
                                       !.lastGestureTime = t]
                      d3 == IF d2.onGestureDetectedCallback
                            THEN Call(d2, GestureCall(matchedGesture, ScoreOne, t,
                                                      "detectGestures"))
                            ELSE d2
                  IN  resetMotionTrackingASM(d3)
             ELSE d1

----------------------------------------------------------------------------
(* The tick: what detectionLoop does with one result of estimateHands.     *)
(* The FPS counters (frameCount, lastFpsUpdateTime, currentFps) are read   *)
(* by getFps only and are left out.                                        *)

ClockStart == 100000

\* performance.now(): milliseconds since the page was loaded
performanceNow(t) == t - ClockStart

convertToHandPose(hand, t) ==
    [timestamp |-> t, landmarks |-> hand.landmarks, handedness |-> hand.handedness,
     ext |-> hand.ext, wrist |-> hand.wrist]

PushPose(d, handPose) ==
    [d EXCEPT !.handPoseHistory = Push(@, handPose, historyLength)]

NotifyPose(d, t, who) ==
    IF d.onHandPoseDetectedCallback THEN Call(d, PoseCall(t, who)) ELSE d

\* a rejected estimateHands: the catch block logs the error and leaves the
\* detector as it is ("first" part_004:198-200, main GestureDetector.ts:232-234,
\* asm part_004:912-915, where detectHandPose then returns null)
Mutant_ErrorStopsDetection(d) == [d EXCEPT !.isRunning = FALSE]
catchEstimateError(d) == d

\* part_004, lines 158-200
tickFirst(d, res, t) ==
    IF res.kind = "hand"
    THEN LET handPose == convertToHandPose(res.hand, t)
             d1 == NotifyPose(PushPose(d, handPose), t, "detectionLoop")
         IN  detectSequences("first", detectGesturesFirst(d1, handPose, t), t)
    ELSE IF res.kind = "throws" THEN catchEstimateError(d) ELSE d

\* GestureDetector.ts, lines 182-234
tickMain(d, res, t, geo) ==
    IF res.kind = "hand"
    THEN LET handPose == convertToHandPose(res.hand, t)
             d1 == PushPose(d, handPose)
             d2 == IF d1.motionTrackingEnabled
                   THEN trackHandMotionMain(d1, handPose, t, geo)
                   ELSE d1
             d3 == NotifyPose(d2, t, "detectionLoop")
         IN  detectSequences("main", detectGesturesMain(d3, handPose, t), t)
    ELSE IF res.kind = "none"
         THEN IF d.motionTrackingEnabled
                 /\ (performanceNow(t) - d.lastMotionSampleTime) > noHandResetMs
              THEN resetMotionTrackingMain(d)
              ELSE d
         ELSE catchEstimateError(d)

\* part_004, lines 860-915: the part of detectHandPose after estimateHands
detectHandPoseASM(d, hand, t, geo) ==
    LET handPose == convertToHandPose(hand, t)
        d1 == PushPose(d, handPose)
        d2 == IF d1.motionTrackingEnabled
              THEN trackHandMotionASM(d1, handPose, t, geo)
              ELSE d1
    IN  NotifyPose(d2, t, "detectHandPose")

\* part_004, line 773 calls a method the class does not define.  Where the
\* build provides it, it is taken to leave the detector's fields as they are.
updateMotionHistory(d, handPose) == d

\* part_004, lines 755-810; helper names whether updateMotionHistory is there
tickASM(d, res, t, geo, helper) ==
    IF res.kind = "hand"
    THEN LET handPose == convertToHandPose(res.hand, t)
             d1 == detectHandPoseASM(d, res.hand, t, geo)
         IN  IF helper = "throws"
             THEN [d1 EXCEPT !.isRunning = FALSE]
             ELSE LET d2 == updateMotionHistory(d1, handPose)
                      gesture == matchedGestureASM(BeforeSelectASM(d2, handPose, t, geo),
                                                   handPose)
                      d3 == detectGesturesASM(d2, handPose, t, geo)
                  IN  IF gesture # NoGesture /\ d3.onGestureDetectedCallback
                      THEN Call(d3, GestureCall(gesture, NoScore, t, "detectionLoop"))
                      ELSE d3
    ELSE IF res.kind = "throws" THEN catchEstimateError(d) ELSE d

----------------------------------------------------------------------------
(* Inputs: hands, gestures, sequences *)

MaxTicks == 3
MaxLoops == 2

Point(x, y, z) == [x |-> x, y |-> y, z |-> z]

Hand(h, ext, wrist) == [landmarks |-> 21, handedness |-> h, ext |-> ext, wrist |-> wrist]
\* landmarks[0] of an empty landmark list (GestureDetector.ts:250): undefined
UndefinedPoint == Point(0 - 1, 0 - 1, 0 - 1)
\* a hand without keypoints3D: convertToHandPose gives it an empty landmark
\* list (GestureDetector.ts:512-516); its finger extensions are never computed
malformed ==
    [landmarks |-> 0, handedness |-> "right", ext |-> <<0, 0, 0, 0, 0>>, wrist |-> UndefinedPoint]
NoHand == [landmarks |-> 0, handedness |-> Null, ext |-> <<>>, wrist |-> Point(0, 0, 0)]

OpenPalm == <<8, 8, 8, 8, 8>>
Fist == <<1, 1, 1, 1, 1>>

openRight == Hand("right", OpenPalm, Point(0, 0, 0))
openLeft == Hand("left", OpenPalm, Point(0, 0, 0))
fistRight == Hand("right", Fist, Point(2, 0, 0))
fistNear == Hand("right", Fist, Point(1, 0, 0))
fistLeft == Hand("left", Fist, Point(2, 0, 0))
halfRight == Hand("right", <<4, 4, 4, 4, 4>>, Point(0, 0, 0))

Gesture(id, threshold, fingerPositions, motionPattern, handRequired) ==
    [id |-> id, name |-> id, threshold |-> threshold, fingerPositions |-> fingerPositions,
     motionPattern |-> motionPattern, handRequired |-> handRequired]

\* static gestures after disciplineGestures of SpellCastingEngine.tsx, motion
\* gestures after testGestures of GestureDetectionDemo.tsx
fireGesture == Gesture("fire_gesture", Pct(60), OpenPalm, Undefined, "any")
earthGesture == Gesture("earth_gesture", Pct(60), Fist, Undefined, "any")
leftPalm == Gesture("left_palm", Pct(60), OpenPalm, Undefined, "left")
rightFist == Gesture("right_fist", Pct(60), Fist, Undefined, "right")
circleClockwise == Gesture("circle_clockwise", Pct(50), OpenPalm, "CIRCLE_CLOCKWISE", "right")
verticalMotion == Gesture("vertical_motion", Pct(50), Fist, "VERTICAL_UP_DOWN", "any")
verticalLeft == Gesture("vertical_left", Pct(50), Fist, "VERTICAL_UP_DOWN", "left")
verticalStrict == Gesture("vertical_strict", Pct(95), Fist, "VERTICAL_UP_DOWN", "any")
zigzagMotion == Gesture("zigzag_motion", Pct(50), Fist, "ZIGZAG", "any")
zigzagLeft == Gesture("zigzag_left", Pct(50), Fist, "ZIGZAG", "left")

Sequence(id, gestures) == [id |-> id, gestures |-> gestures]

fireSpell == Sequence("spell_sequence_fire", <<fireGesture>>)
comboSpell == Sequence("spell_sequence_combo", <<fireGesture, earthGesture>>)

\* the sequence SpellCastingEngine.tsx builds for a spell without discipline
\* gesture (lines 103-111): no steps
errorSequence == Sequence("error_sequence_0", <<>>)
\* a gesture with neither finger positions nor a motion pattern
untypedGesture == Gesture("untyped_gesture", Pct(60), <<>>, Undefined, "any")

Geo(c, v, z) == [NoGeo EXCEPT !.circular = c, !.vertical = v, !.zigzag = z]

(* A scenario bounds what the environment does in one behaviour: the       *)
(* revision, the registrations made before startDetection, a warm-up of    *)
(* uniform ticks made before the gesture listener is subscribed, and then  *)
(* the hands, delays and trajectory geometries the ticks draw from.        *)
Scenario(name, v, warm, gestures, sequences, hands, others, dts, geos, helper, maxLoops, stops) ==
    [name |-> name, version |-> v, warm |-> warm, gestures |-> gestures,
     sequences |-> sequences, hands |-> hands, others |-> others, dts |-> dts,
     geos |-> geos, helper |-> helper, maxLoops |-> maxLoops, stops |-> stops]

Scenarios ==
    { Scenario("first-debounce", "first", 0, <<fireGesture, earthGesture>>, <<fireSpell>>,
               {openRight, fistRight}, {"none"}, {100, 500}, {NoGeo}, {"returns"}, 1, FALSE),
      Scenario("main-debounce", "main", 0, <<fireGesture, rightFist>>, <<comboSpell>>,
               {openRight, fistRight, fistLeft}, {"none"}, {100, 200, 600}, {NoGeo},
               {"returns"}, 1, FALSE),
      Scenario("main-hands", "main", 0, <<leftPalm, rightFist, fireGesture>>,
               <<fireSpell, errorSequence>>,
               {openRight, openLeft, fistRight, malformed}, {"throws"}, {100}, {NoGeo},
               {"returns"}, 1, FALSE),
      Scenario("main-motion", "main", 9,
               <<verticalLeft, verticalStrict, verticalMotion, fireGesture>>, <<>>,
               {openRight, fistRight, fistLeft}, {"none"}, {100, 1100},
               {NoGeo, Geo("no", TRUE, FALSE)}, {"returns"}, 1, FALSE),
      Scenario("asm-motion", "asm", 5,
               <<zigzagLeft, circleClockwise, zigzagMotion, fireGesture>>, <<>>,
               {openRight, openLeft, fistNear}, {"none"}, {100, 200},
               {NoGeo, Geo("cw", FALSE, FALSE), Geo("no", FALSE, TRUE)},
               {"returns", "throws"}, 1, FALSE),
      Scenario("main-lifecycle", "main", 0, <<fireGesture>>, <<>>,
               {openRight}, {"none"}, {100}, {NoGeo}, {"returns"}, MaxLoops, TRUE),
      Scenario("asm-lifecycle", "asm", 0, <<zigzagMotion>>, <<>>,
               {openRight}, {"none"}, {100}, {NoGeo}, {"returns"}, MaxLoops, TRUE),
      Scenario("main-history", "main", historyLength, <<fireGesture>>,
               <<errorSequence, fireSpell>>,
               {openRight, fistRight}, {"none", "throws"}, {100},
               {NoGeo, Geo("no", TRUE, FALSE)}, {"returns"}, 1, FALSE),
      Scenario("asm-history", "asm", historyLength, <<zigzagMotion>>, <<fireSpell>>,
               {openRight, fistNear}, {"none", "throws"}, {100, 600},
               {NoGeo, Geo("cw", FALSE, FALSE)}, {"returns"}, 1, FALSE),
      Scenario("registration", "main", 0, <<fireGesture>>, <<fireSpell>>,
               {}, {"none"}, {100}, {NoGeo}, {"returns"}, 1, FALSE) }

\* the lists a component may pass to registerGestures and registerSequences
\* while the detector exists; only the registration scenario makes such calls
GestureLists(sc) ==
    IF sc.name = "registration"
    THEN {<<fireGesture, earthGesture>>, <<earthGesture, untypedGesture>>, <<>>}
    ELSE {}
SequenceLists(sc) ==
    IF sc.name = "registration"
    THEN {<<comboSpell>>, <<fireSpell, errorSequence>>, <<>>}
    ELSE {}

Results(sc) ==
    {[kind |-> "hand", hand |-> h] : h \in sc.hands}
        \cup {[kind |-> k, hand |-> NoHand] : k \in sc.others}

WarmHand(n) == IF n % 2 = 0 THEN openRight ELSE fistRight

\* the inputs of the tick numbered n: ticks below 0 are the warm-up
Inputs(sc, n) ==
    IF n < 0
    THEN {[res |-> [kind |-> "hand", hand |-> WarmHand(0 - n)], dt |-> motionSamplingRate,
           geo |-> NoGeo, helper |-> "returns"]}
    ELSE [res : Results(sc), dt : sc.dts, geo : sc.geos, helper : sc.helper]

----------------------------------------------------------------------------
(* Construction and set-up *)

LoopIds == 1..MaxLoops

\* the field initialisers of the class; activeMotionPattern starts as null in
\* the main revision and as MotionPattern.NONE in the asm revision
Constructed(v) ==
    [detector |-> FALSE, videoElement |-> FALSE, isRunning |-> FALSE,
     handPoseHistory |-> <<>>,
     onHandPoseDetectedCallback |-> FALSE, onGestureDetectedCallback |-> FALSE,
     onGestureSequenceDetectedCallback |-> FALSE,
     registeredGestures |-> <<>>, registeredSequences |-> <<>>,
     lastDetectedGesture |-> Null, lastGestureTime |-> 0,
     motionTrackingEnabled |-> FALSE, motionTrackingStartTime |-> 0,
     motionPositionHistory |-> <<>>, lastMotionSampleTime |-> 0,
     activeMotionPattern |-> IF v = "asm" THEN "NONE" ELSE Null,
     isGestureActive |-> FALSE, lastSignificantMovement |-> 0,
     out |-> <<>>]

\* initialize(enableMotionTracking = true) and setVideoElement(video)
initialize(v, d) ==
    [d EXCEPT !.detector = TRUE, !.videoElement = TRUE, !.motionTrackingEnabled = v # "first"]

registerGestures(d, gestures) == [d EXCEPT !.registeredGestures = gestures]
registerSequences(d, sequences) == [d EXCEPT !.registeredSequences = sequences]
onHandPoseDetected(d) == [d EXCEPT !.onHandPoseDetectedCallback = TRUE]
onGestureDetected(d) == [d EXCEPT !.onGestureDetectedCallback = TRUE]
onGestureSequenceDetected(d) == [d EXCEPT !.onGestureSequenceDetectedCallback = TRUE]

\* the detector as a component sets it up before it starts detection; the
\* gesture listener is subscribed at once unless the scenario has a warm-up
SetUp(sc) ==
    LET d == onGestureSequenceDetected(onHandPoseDetected(
                 registerSequences(registerGestures(
                     initialize(sc.version, Constructed(sc.version)), sc.gestures),
                     sc.sequences)))
    IN  IF sc.warm = 0 THEN onGestureDetected(d) ELSE d

----------------------------------------------------------------------------
(* Observations of a tick, for stating properties *)

NoCall == [kind |-> "none", id |-> Null, score |-> Rat(0, 1), at |-> 0, by |-> Null,
           g |-> NoGesture]
NoEmit == [some |-> FALSE, c |-> NoCall, n |-> 0]

NoTick ==
    [n |-> 0, at |-> 0, kind |-> "init", hand |-> NoHand, helper |-> "returns",
     pattern |-> Null, best |-> NoGesture, bestScore |-> 0, lastBefore |-> Null,
     timeBefore |-> 0, calls |-> <<>>, before |-> Constructed("main"),
     start |-> Constructed("main"), tracked |-> Constructed("main"),
     after |-> Constructed("main"), next |-> "free"]

GestureCalls(calls) == SelectSeq(calls, LAMBDA c : c.kind = "gesture")

\* the detector state in which the tick selects its gesture
SelectionState(v, d, in, t) ==
    LET handPose == convertToHandPose(in.res.hand, t)
    IN  IF in.res.kind # "hand" THEN d
        ELSE CASE v = "first" -> PushPose(d, handPose)
               [] v = "main" ->
                    IF d.motionTrackingEnabled
                    THEN trackHandMotionMain(PushPose(d, handPose), handPose, t, in.geo)
                    ELSE PushPose(d, handPose)
               [] v = "asm" ->
                    BeforeSelectASM(
                        updateMotionHistory(detectHandPoseASM(d, in.res.hand, t, in.geo),
                                            handPose),
                        handPose, t, in.geo)

Selected(v, ds, in, t) ==
    LET handPose == convertToHandPose(in.res.hand, t)
    IN  IF in.res.kind # "hand" \/ (v = "asm" /\ in.helper = "throws") THEN NoBest
        ELSE IF v = "asm"
             THEN LET g == matchedGestureASM(ds, handPose)
                  IN  [found |-> g # NoGesture, gesture |-> g,
                       score |-> IF g # NoGesture THEN ScoreOne ELSE 0]
             ELSE BestMatch(v, ds, handPose)

\* the detector after the first trackHandMotion call of the tick (asm:
\* detectHandPose, part_004:900-903; main: detectionLoop, lines 212-214)
Tracked(v, d, in, t) ==
    LET handPose == convertToHandPose(in.res.hand, t)
        d1 == PushPose(d, handPose)
    IN  IF in.res.kind # "hand" \/ v = "first" \/ ~d.motionTrackingEnabled THEN d
        ELSE IF v = "main" THEN trackHandMotionMain(d1, handPose, t, in.geo)
             ELSE trackHandMotionASM(d1, handPose, t, in.geo)

\* start: the detector when estimateHands settles; tracked: after the first
\* trackHandMotion call; before: where the gesture is selected; after: when
\* the handler is done; next: where the handler leaves its loop
Observe(v, d, in, t, n, after, next) ==
    LET ds == SelectionState(v, d, in, t)
        sel == Selected(v, ds, in, t)
    IN  [n |-> n, at |-> t, kind |-> in.res.kind, hand |-> in.res.hand,
         helper |-> in.helper, pattern |-> ds.activeMotionPattern,
         best |-> sel.gesture, bestScore |-> sel.score,
         lastBefore |-> ds.lastDetectedGesture, timeBefore |-> ds.lastGestureTime,
         calls |-> after.out, before |-> ds,
         start |-> d, tracked |-> Tracked(v, d, in, t),
         after |-> [after EXCEPT !.out = <<>>], next |-> next]

----------------------------------------------------------------------------
(* Actions *)

NoProbe == [applied |-> FALSE, isMatch |-> FALSE, score |-> Rat(0, 1)]

Init ==
    /\ scenario \in Scenarios
    /\ version = scenario.version
    /\ det = SetUp(scenario)
    /\ now = ClockStart
    /\ loops = [i \in LoopIds |-> "free"]
    /\ ticks = 0 - scenario.warm
    /\ tick = NoTick
    /\ prevTick = NoTick
    /\ prevEmit = NoEmit
    /\ probe = NoProbe

Live == {i \in LoopIds : loops[i] # "free"}
FreeId == CHOOSE i \in LoopIds : loops[i] = "free" /\ \A j \in LoopIds : loops[j] = "free" => i <= j

\* startDetection(): sets isRunning and calls detectionLoop(), which runs up to
\* its first await (estimateHands; in the asm revision processFrame)
StartDetection ==
    /\ det.detector /\ det.videoElement
    /\ Cardinality(Live) < scenario.maxLoops
    /\ det' = [det EXCEPT !.isRunning = TRUE]
    /\ loops' = [loops EXCEPT ![FreeId] = IF version = "asm" THEN "frame" ELSE "await"]
    /\ UNCHANGED <<probe, version, scenario, now, ticks, tick, prevTick, prevEmit>>

StopDetection ==
    /\ scenario.stops
    /\ det' = [det EXCEPT !.isRunning = FALSE]
    /\ UNCHANGED <<probe, version, scenario, now, loops, ticks, tick, prevTick, prevEmit>>

\* onGestureDetected(callback), made when the warm-up is over
OnGestureDetected ==
    /\ ticks = 0
    /\ ~det.onGestureDetectedCallback
    /\ det' = onGestureDetected(det)
    /\ UNCHANGED <<probe, version, scenario, now, loops, ticks, tick, prevTick, prevEmit>>

\* registerGestures(gestures), called again after the set-up
RegisterGestures ==
    /\ \E gestures \in GestureLists(scenario) :
          /\ det.registeredGestures # gestures
          /\ det' = registerGestures(det, gestures)
    /\ UNCHANGED <<probe, version, scenario, now, loops, ticks, tick, prevTick, prevEmit>>

\* registerSequences(sequences), called again after the set-up
RegisterSequences ==
    /\ \E sequences \in SequenceLists(scenario) :
          /\ det.registeredSequences # sequences
          /\ det' = registerSequences(det, sequences)
    /\ UNCHANGED <<probe, version, scenario, now, loops, ticks, tick, prevTick, prevEmit>>

TickOf(v, d, in, t) ==
    CASE v = "first" -> tickFirst(d, in.res, t)
      [] v = "main" -> tickMain(d, in.res, t, in.geo)
      [] v = "asm" -> tickASM(d, in.res, t, in.geo, in.helper)

\* what a tick leaves in the observation variables
Record(in, t, after, next) ==
    LET gc == GestureCalls(after.out)
    IN  /\ det' = [after EXCEPT !.out = <<>>]
        /\ now' = t
        /\ ticks' = ticks + 1
        /\ tick' = Observe(version, det, in, t, ticks + 1, after, next)
        /\ prevTick' = tick
        /\ prevEmit' = IF Len(tick.calls) > 0 /\ Len(GestureCalls(tick.calls)) > 0
                       THEN [some |-> TRUE,
                             c |-> GestureCalls(tick.calls)[Len(GestureCalls(tick.calls))],
                             n |-> tick.n]
                       ELSE prevEmit

\* estimateHands resolves (or rejects) for loop i: first and main revision.
\* Afterwards "if (this.isRunning) requestAnimationFrame(...)".
EstimateHandsReturns(i) ==
    /\ version \in {"first", "main"}
    /\ loops[i] = "await"
    /\ ticks < MaxTicks
    /\ ticks >= 0 => det.onGestureDetectedCallback
    /\ \E in \in Inputs(scenario, ticks) :
          LET t == now + in.dt
              after == TickOf(version, det, in, t)
              next == IF after.isRunning THEN "raf" ELSE "free"
          IN  /\ Record(in, t, after, next)
              /\ loops' = [loops EXCEPT ![i] = next]
    /\ UNCHANGED <<probe, version, scenario>>

\* the animation frame callback calls detectionLoop() again
AnimationFrame(i) ==
    /\ loops[i] = "raf"
    /\ loops' = [loops EXCEPT ![i] = IF det.isRunning THEN "await" ELSE "free"]
    /\ UNCHANGED <<probe, version, scenario, det, now, ticks, tick, prevTick, prevEmit>>

\* asm revision: "await this.processFrame()" resolves; detectHandPose starts
\* and awaits estimateHands
FrameResolves(i) ==
    /\ loops[i] = "frame"
    /\ loops' = [loops EXCEPT ![i] = "await"]
    /\ UNCHANGED <<probe, version, scenario, det, now, ticks, tick, prevTick, prevEmit>>

\* asm revision: estimateHands resolves (or rejects) for loop i; the loop then
\* sleeps, or ends in its catch block, which calls stopDetection()
EstimateHandsReturnsASM(i) ==
    /\ version = "asm"
    /\ loops[i] = "await"
    /\ ticks < MaxTicks
    /\ ticks >= 0 => det.onGestureDetectedCallback
    /\ \E in \in Inputs(scenario, ticks) :
          LET t == now + in.dt
              after == TickOf(version, det, in, t)
              next == IF in.res.kind = "hand" /\ in.helper = "throws"
                      THEN "free" ELSE "sleep"
          IN  /\ Record(in, t, after, next)
              /\ loops' = [loops EXCEPT ![i] = next]
    /\ UNCHANGED <<probe, version, scenario>>

\* asm revision: the setTimeout of the loop fires and "while (this.isRunning)"
\* is evaluated again
TimerFires(i) ==
    /\ loops[i] = "sleep"
    /\ loops' = [loops EXCEPT ![i] = IF det.isRunning THEN "frame" ELSE "free"]
    /\ UNCHANGED <<probe, version, scenario, det, now, ticks, tick, prevTick, prevEmit>>

Next ==
    \/ StartDetection
    \/ StopDetection
    \/ OnGestureDetected
    \/ RegisterGestures
    \/ RegisterSequences
    \/ \E i \in LoopIds : EstimateHandsReturns(i)
    \/ \E i \in LoopIds : AnimationFrame(i)
    \/ \E i \in LoopIds : FrameResolves(i)
    \/ \E i \in LoopIds : EstimateHandsReturnsASM(i)
    \/ \E i \in LoopIds : TimerFires(i)

Spec == Init /\ [][Next]_vars

----------------------------------------------------------------------------
(* Direct calls of matchSequence: the detector holds a pose history and one *)
(* registered sequence, and matchSequence is applied to them once.          *)

MaxSteps == 2

leftSpell == Sequence("spell_sequence_left", <<leftPalm, fireGesture>>)
motionSpell == Sequence("spell_sequence_motion", <<verticalMotion, fireGesture>>)

SeqScenario ==
    Scenario("sequences", "main", 0, <<>>, <<>>, {openRight, halfRight, openLeft}, {}, {},
             {}, {}, 0, FALSE)

\* sequences of two motion-typed steps: different patterns, the same pattern,
\* and the same pattern with a step for the left hand
twoPatterns == Sequence("spell_sequence_two_patterns", <<verticalMotion, circleClockwise>>)
samePattern == Sequence("spell_sequence_same_pattern", <<verticalMotion, verticalStrict>>)
leftPattern == Sequence("spell_sequence_left_pattern", <<verticalMotion, verticalLeft>>)

SeqSequences ==
    {fireSpell, comboSpell, leftSpell, motionSpell, twoPatterns, samePattern, leftPattern}

ActivePatterns == {Null, "VERTICAL_UP_DOWN", "CIRCLE_CLOCKWISE"}

\* pose histories of up to n samples taken motionSamplingRate apart
Histories(n) ==
    UNION { { [i \in 1..m |-> convertToHandPose(f[i], ClockStart + i * motionSamplingRate)] :
                f \in [1..m -> SeqScenario.hands] } : m \in 0..n }

InitSeq ==
    /\ scenario = SeqScenario
    /\ version = "main"
    /\ \E q \in SeqSequences, p \in ActivePatterns :
         \E h \in Histories(3 * Len(q.gestures) + 1) :
            det = [registerSequences(SetUp(SeqScenario), <<q>>) EXCEPT
                      !.handPoseHistory = h, !.activeMotionPattern = p]
    /\ now = ClockStart
    /\ loops = [i \in LoopIds |-> "free"]
    /\ ticks = 0
    /\ tick = NoTick
    /\ prevTick = NoTick
    /\ prevEmit = NoEmit
    /\ probe = NoProbe

MatchSequence ==
    /\ ~probe.applied
    /\ Len(det.registeredSequences[1].gestures) <= MaxSteps
    /\ LET match == matchSequence(version, det, det.handPoseHistory,
                                  det.registeredSequences[1])
       IN  probe' = [applied |-> TRUE, isMatch |-> match.isMatch, score |-> match.score]
    /\ UNCHANGED <<version, scenario, det, now, loops, ticks, tick, prevTick, prevEmit>>

NextSeq == MatchSequence

SpecSeq == InitSeq /\ [][NextSeq]_vars

----------------------------------------------------------------------------
(* Properties of the debounce rule (first and main revision) *)

\* the gesture listener calls detectGestures made in the most recent tick
Emitted == SelectSeq(tick.calls, LAMBDA c : c.kind = "gesture" /\ c.by = "detectGestures")

Debounced == version \in {"first", "main"}

\* C1: two consecutive gesture listener calls by detectGestures whose ids
\* differ are more than gestureCooldownMs apart, also when lastDetectedGesture
\* was reset to null in between
C1_DebounceDifferentGestures ==
    (Debounced /\ prevEmit.some) =>
        \A k \in 1..Len(Emitted) :
            Emitted[k].id # prevEmit.c.id =>
                Emitted[k].at - prevEmit.c.at > gestureCooldownMs(version)

\* a different gesture is emitted after the 500 ms rule has reset
\* lastDetectedGesture to null
C1_Witness ==
    /\ version = "main"
    /\ prevEmit.some
    /\ Len(Emitted) = 1
    /\ Emitted[1].id # prevEmit.c.id
    /\ tick.lastBefore = Null

\* C2: when the best match of a tick has the id of the previous emission, the
\* listener is called on that tick, once, with that gesture
C2_SameGestureNeverSuppressed ==
    (Debounced /\ prevEmit.some /\ tick.n > prevEmit.n /\ tick.kind = "hand"
        /\ tick.best.id = prevEmit.c.id) =>
        (Len(Emitted) = 1 /\ Emitted[1].id = tick.best.id)

\* the same gesture is emitted on two successive ticks less than the cooldown
\* apart
C2_Witness ==
    /\ Debounced
    /\ prevEmit.some
    /\ prevEmit.n = tick.n - 1
    /\ tick.best.id = prevEmit.c.id
    /\ Len(Emitted) = 1
    /\ tick.at - prevEmit.c.at < gestureCooldownMs(version)

\* A was emitted two ticks ago, B was the best match of the tick between, A is
\* the best match again, and the ticks are less than the cooldown apart
AlternationABA ==
    /\ version = "main"
    /\ prevEmit.some
    /\ prevEmit.n = tick.n - 2
    /\ prevTick.n = tick.n - 1
    /\ prevTick.best.id \notin {Null, prevEmit.c.id}
    /\ tick.best.id = prevEmit.c.id
    /\ tick.at - prevTick.at < gestureCooldownMsMain
    /\ prevTick.at - prevEmit.c.at < gestureCooldownMsMain

\* A was emitted by the tick before and B is the best match of this tick, less
\* than the cooldown later
AlternationAB ==
    /\ version = "main"
    /\ prevEmit.some
    /\ prevEmit.n = tick.n - 1
    /\ tick.best.id \notin {Null, prevEmit.c.id}
    /\ tick.at - prevEmit.c.at < gestureCooldownMsMain

\* C3 as stated: while A and B alternate faster than the cooldown, two
\* listener calls never lie inside one interval of length gestureCooldownMs
C3_AtMostOnePerWindow ==
    (AlternationABA \/ AlternationAB) =>
        \A k \in 1..Len(Emitted) : Emitted[k].at - prevEmit.c.at > gestureCooldownMsMain

\* C3: while A and B alternate faster than the cooldown after an emission of A,
\* a tick whose best match is B calls nothing and a tick whose best match is A
\* calls the listener once with A: the calls inside one cooldown interval all
\* carry the same id, but there can be several of them
C3_OnlyOneGestureInWindow ==
    /\ AlternationAB => Len(Emitted) = 0
    /\ AlternationABA => (Len(Emitted) = 1 /\ Emitted[1].id = prevEmit.c.id)

C3_Witness ==
    /\ AlternationABA
    /\ Len(Emitted) = 1
    /\ Emitted[1].at - prevEmit.c.at <= gestureCooldownMsMain

----------------------------------------------------------------------------
(* Properties of matchSequence, stated on the direct calls of SpecSeq *)

TheSequence == det.registeredSequences[1]
StepCount == Len(TheSequence.gestures)

\* the offsets (1-based) of the windows of StepCount samples that lie inside
\* the most recent 3 * StepCount samples of the history
SearchedOffsets ==
    LET n == Len(det.handPoseHistory)
        lo == IF n > 3 * StepCount THEN n - 3 * StepCount ELSE 0
    IN  (lo + 1)..(n - StepCount + 1)

StepMatch(i, j) ==
    matchGesture(version, det, det.handPoseHistory[i + j - 1], TheSequence.gestures[j])

FullyMatches(i) == \A j \in 1..StepCount : StepMatch(i, j).isMatch

RECURSIVE StepScoreSum(_, _)
StepScoreSum(i, j) == IF j = 0 THEN 0 ELSE StepMatch(i, j).score + StepScoreSum(i, j - 1)

\* C4: matchSequence reports a match if and only if some window inside the
\* most recent 3k samples matches every step; windows with a failing step and
\* windows outside that range count for nothing
C4_MatchIffWindowInRecent ==
    (probe.applied /\ StepCount >= 1) =>
        (probe.isMatch <=> \E i \in SearchedOffsets : FullyMatches(i))

\* the history holds more than 3k samples, its oldest window matches every
\* step, no searched window does, and no match is reported
C4_Witness ==
    /\ probe.applied
    /\ StepCount = MaxSteps
    /\ Len(det.handPoseHistory) > 3 * StepCount
    /\ \A j \in 1..StepCount : StepMatch(1, j).isMatch
    /\ \E i \in SearchedOffsets : StepMatch(i, 1).isMatch /\ ~FullyMatches(i)
    /\ ~probe.isMatch

\* C5: a reported match carries the largest mean of step scores over the
\* fully matching searched windows, a number in [0,1]; no match carries 0
C5_ScoreIsBestWindowMean ==
    probe.applied =>
        IF probe.isMatch
        THEN /\ \E i \in SearchedOffsets :
                  /\ FullyMatches(i)
                  /\ probe.score.num * StepCount = StepScoreSum(i, StepCount) * probe.score.den
             /\ \A i \in SearchedOffsets :
                  FullyMatches(i) =>
                      probe.score.num * StepCount >= StepScoreSum(i, StepCount) * probe.score.den
             /\ probe.score.den > 0
             /\ probe.score.num >= 0
             /\ probe.score.num <= ScoreOne * probe.score.den
        ELSE probe.score.num = 0 /\ probe.score.den > 0

\* two fully matching windows with different means, the better one first
C5_Witness ==
    /\ probe.applied
    /\ probe.isMatch
    /\ StepCount = MaxSteps
    /\ \E i, k \in SearchedOffsets :
          /\ i < k
          /\ FullyMatches(i)
          /\ FullyMatches(k)
          /\ StepScoreSum(i, StepCount) > StepScoreSum(k, StepCount)

----------------------------------------------------------------------------
(* Properties of matching and selection *)

AllGestureCalls == GestureCalls(tick.calls)

\* C6: a gesture that requires the left or the right hand is not passed to the
\* gesture listener on a tick whose sample is of the other hand (main and asm
\* revision)
C6_HandednessRespected ==
    version \in {"main", "asm"} =>
        \A k \in 1..Len(AllGestureCalls) :
            AllGestureCalls[k].g.handRequired \in {"left", "right"} =>
                AllGestureCalls[k].g.handRequired = tick.hand.handedness

\* a right open hand: left_palm is registered first and has the pattern of the
\* hand, and the listener is called with a gesture registered after it
C6_Witness ==
    /\ version = "main"
    /\ tick.hand = openRight
    /\ det.registeredGestures[1] = leftPalm
    /\ Len(AllGestureCalls) = 1
    /\ AllGestureCalls[1].g = fireGesture

\* C7 as stated: every gesture detectGestures passes to the listener carries a
\* score greater than its own threshold, motion-typed gestures too
C7_ScoreAboveThreshold ==
    version = "main" =>
        \A k \in 1..Len(Emitted) :
            Emitted[k].score.num > Emitted[k].g.threshold * Emitted[k].score.den

\* C7: a static-typed gesture passed to the listener carries a score greater
\* than its threshold; a motion-typed gesture carries the score 0.9 whatever
\* its threshold is
C7_StaticAboveThresholdMotionFixed ==
    version = "main" =>
        \A k \in 1..Len(Emitted) :
            IF IsMotionTyped(Emitted[k].g)
            THEN Emitted[k].score = Rat(Pct(90), 1)
            ELSE Emitted[k].score.num > Emitted[k].g.threshold * Emitted[k].score.den

\* a motion-typed gesture whose threshold is below 0.9 is emitted with 0.9
C7_Witness ==
    /\ version = "main"
    /\ Len(Emitted) = 1
    /\ IsMotionTyped(Emitted[1].g)
    /\ Emitted[1].g.threshold < Pct(90)
    /\ Emitted[1].score = Rat(Pct(90), 1)

\* the sample and the registered gestures of the most recent tick, and which
\* of them matchGesture accepts in the state the selection was made in
TickPose == convertToHandPose(tick.hand, tick.at)
Registered == tick.before.registeredGestures
MatchOf(n) == matchGesture(version, tick.before, TickPose, Registered[n])
Matching == {n \in 1..Len(Registered) : MatchOf(n).isMatch}
MotionMatching == {n \in Matching : IsMotionTyped(Registered[n])}
FirstOf(S) == CHOOSE n \in S : \A m \in S : n <= m
BestOf(S) ==
    CHOOSE n \in S :
        \A m \in S : MatchOf(m).score < MatchOf(n).score
                        \/ (MatchOf(m).score = MatchOf(n).score /\ n <= m)

Selecting ==
    /\ version \in {"main", "asm"}
    /\ tick.kind = "hand"
    /\ ~(version = "asm" /\ tick.helper = "throws")

\* C8 as stated: a matching motion-typed gesture, the first in registration
\* order, is selected before any static one; else the best static one
C8_MotionFirstElseBestStatic ==
    Selecting =>
        tick.best = IF MotionMatching # {} THEN Registered[FirstOf(MotionMatching)]
                    ELSE IF Matching # {} THEN Registered[BestOf(Matching)]
                    ELSE NoGesture

\* C8: the main revision selects the matching gesture with the greatest score,
\* the first registered one among equals, a motion-typed match counting 0.9;
\* the asm revision selects the first registered motion-typed match and never
\* a static gesture
C8_SelectionRule ==
    Selecting =>
        tick.best = IF version = "main"
                    THEN IF Matching # {} THEN Registered[BestOf(Matching)] ELSE NoGesture
                    ELSE IF MotionMatching # {} THEN Registered[FirstOf(MotionMatching)]
                    ELSE NoGesture

\* a motion-typed gesture matches and a static gesture of greater score is
\* selected
C8_Witness ==
    /\ version = "main"
    /\ tick.kind = "hand"
    /\ MotionMatching # {}
    /\ tick.best # NoGesture
    /\ ~IsMotionTyped(tick.best)
    /\ tick.bestScore > Pct(90)

----------------------------------------------------------------------------
(* Properties of the motion buffer and of the detection loop *)

\* C9 as stated: once the listener has been called with a motion-typed
\* gesture, the motion buffer is empty and the motion pattern cleared before
\* the next tick
C9_MotionClearedAfterEmission ==
    (version \in {"main", "asm"}
        /\ \E k \in 1..Len(AllGestureCalls) : IsMotionTyped(AllGestureCalls[k].g)) =>
        (det.motionPositionHistory = <<>> /\ det.activeMotionPattern \in {Null, "NONE"})

\* C10 as stated: at most one execution of detectionLoop is in progress
C10_SingleLoopExecution == Cardinality(Live) <= 1

----------------------------------------------------------------------------
(* C11: stopDetection() while estimateHands is in flight *)

\* the buffers a tick may write
Buffers(d) ==
    [handPoseHistory |-> d.handPoseHistory,
     motionPositionHistory |-> d.motionPositionHistory,
     activeMotionPattern |-> d.activeMotionPattern,
     lastDetectedGesture |-> d.lastDetectedGesture,
     lastGestureTime |-> d.lastGestureTime]

\* the estimateHands result of this tick arrived after stopDetection()
ArrivedStopped == tick.kind # "init" /\ ~tick.start.isRunning

\* C11: when stopDetection() was called while estimateHands was in flight, the
\* result that arrives afterwards is discarded: it mutates no buffer and
\* invokes no listener.
C11_ResultAfterStopDiscarded ==
    ArrivedStopped =>
        /\ tick.calls = <<>>
        /\ tick.after.handPoseHistory = tick.start.handPoseHistory
        /\ tick.after.motionPositionHistory = tick.start.motionPositionHistory

----------------------------------------------------------------------------
(* C12: estimateHands throws or rejects *)

\* C12: a tick whose estimateHands call throws or rejects is treated as "no
\* hand": it modifies no buffer and calls no listener, isRunning stays true,
\* and the loop goes on to its next tick.
C12_EstimateErrorIsNoHand ==
    tick.kind = "throws" =>
        /\ tick.calls = <<>>
        /\ Buffers(tick.after) = Buffers(tick.start)
        /\ tick.start.isRunning => tick.after.isRunning /\ tick.next \in {"raf", "sleep"}

\* estimateHands rejected in the asm revision while both buffers held entries
C12_Witness ==
    /\ version = "asm"
    /\ tick.kind = "throws"
    /\ tick.start.isRunning
    /\ Len(tick.start.handPoseHistory) > 0
    /\ Len(tick.start.motionPositionHistory) > 0
    /\ tick.next = "sleep"

----------------------------------------------------------------------------
(* C13: samples without 21 landmarks *)

\* C13: a sample whose landmark list does not hold exactly 21 points is
\* treated as "no hand this tick": it is appended neither to handPoseHistory
\* nor to the motion position buffer, and no listener is called because of it.
C13_MalformedSampleDiscarded ==
    (tick.kind = "hand" /\ tick.hand.landmarks # 21) =>
        /\ tick.calls = <<>>
        /\ tick.after.handPoseHistory = tick.start.handPoseHistory
        /\ tick.after.motionPositionHistory = tick.start.motionPositionHistory

----------------------------------------------------------------------------
(* C14: validation of registrations *)

StaticTyped(gesture) == Len(gesture.fingerPositions) = 5
ValidGesture(gesture) == StaticTyped(gesture) \/ IsMotionTyped(gesture)
ValidSequence(sequence) == Len(sequence.gestures) >= 1

\* C14: registration is all-or-nothing: a call of registerSequences with a
\* list holding a sequence of zero steps, or of registerGestures with a list
\* holding a gesture that is neither static- nor motion-typed, fails and leaves
\* the registered set as it was; hence no such entry is ever registered.
C14_RegistrationValidated ==
    /\ \A i \in 1..Len(det.registeredGestures) : ValidGesture(det.registeredGestures[i])
    /\ \A i \in 1..Len(det.registeredSequences) : ValidSequence(det.registeredSequences[i])

----------------------------------------------------------------------------
(* C15, C16: the bounded buffers *)

\* the last n entries of a sequence (all of them when it has fewer)
LastN(seq, n) == SubSeq(seq, Len(seq) - Min(Len(seq), n) + 1, Len(seq))

\* C15: handPoseHistory holds at most 30 samples and is exactly the last
\* min(n, 30) hand samples received, in arrival order: a tick with a hand
\* appends its sample and drops the oldest one when that makes 31, any other
\* tick and any other operation leaves the history as it is.
C15_PoseHistoryBoundedFifo ==
    /\ Len(det.handPoseHistory) <= historyLength
    /\ tick.kind = "init" => det.handPoseHistory = <<>>
    /\ tick.kind # "init" => det.handPoseHistory = tick.after.handPoseHistory
    /\ tick.kind = "hand" =>
          tick.after.handPoseHistory
              = LastN(Append(tick.start.handPoseHistory, TickPose), historyLength)
    /\ tick.kind \in {"none", "throws"} =>
          tick.after.handPoseHistory = tick.start.handPoseHistory
    /\ \A i \in 1..(Len(det.handPoseHistory) - 1) :
          det.handPoseHistory[i].timestamp < det.handPoseHistory[i + 1].timestamp

\* a 31st sample arrived and the oldest one was evicted
C15_Witness ==
    /\ tick.kind = "hand"
    /\ tick.n >= 1
    /\ Len(tick.start.handPoseHistory) = historyLength
    /\ Len(det.handPoseHistory) = historyLength
    /\ det.handPoseHistory[1] = tick.start.handPoseHistory[2]
    /\ det.handPoseHistory[historyLength] = TickPose

\* the two calls of trackHandMotion in a tick of the asm revision: by
\* detectHandPose (part_004:900-903) and by detectGestures (part_004:1466)
FirstCall == version = "asm" /\ tick.kind = "hand"
SecondCall == FirstCall /\ tick.helper = "returns"

\* what one call may do to the buffer, given the wrist position it gets
BufferStep(pre, post, wrist) ==
    /\ Len(post) <= maxHistorySize
    /\ post \in {pre, <<>>, LastN(Append(pre, wrist), maxHistorySize)}
    /\ (Len(pre) = maxHistorySize /\ Significant(wrist, pre[Len(pre)]))
           => post = Append(Tail(pre), wrist)

\* C16: in the asm revision the motion position buffer holds at most 20
\* positions after every call of trackHandMotion, and a position appended to
\* a full buffer evicts exactly the oldest position and nothing else.
C16_MotionBufferBoundedFifo ==
    /\ version = "asm" => Len(det.motionPositionHistory) <= maxHistorySize
    /\ FirstCall => BufferStep(tick.start.motionPositionHistory,
                               tick.tracked.motionPositionHistory, tick.hand.wrist)
    /\ SecondCall => BufferStep(tick.tracked.motionPositionHistory,
                                tick.before.motionPositionHistory, tick.hand.wrist)

\* a position was appended to the full buffer of the asm revision
C16_Witness ==
    /\ FirstCall
    /\ tick.n >= 1
    /\ Len(tick.start.motionPositionHistory) = maxHistorySize
    /\ tick.tracked.motionPositionHistory
           = Append(Tail(tick.start.motionPositionHistory), tick.hand.wrist)
    /\ tick.tracked.motionPositionHistory # tick.start.motionPositionHistory

----------------------------------------------------------------------------
(* C17, C18: inactivity in the asm revision *)

\* the sample of this tick did not move beyond the threshold from the last
\* buffered position, and the last significant movement is more than
\* gestureInactivityTimeout ms ago
InactiveSample ==
    /\ FirstCall
    /\ Len(tick.start.motionPositionHistory) > 0
    /\ ~Significant(tick.hand.wrist,
                    tick.start.motionPositionHistory[Len(tick.start.motionPositionHistory)])
    /\ tick.at - tick.start.lastSignificantMovement > gestureInactivityTimeout

\* C17: when trackHandMotion of the asm revision gets a sample that did not
\* move beyond movementThreshold and more than gestureInactivityTimeout ms
\* have passed since the last significant movement, then within that call
\* isGestureActive becomes false, the motion position buffer becomes empty and
\* activeMotionPattern becomes NONE.
C17_InactivityResets ==
    InactiveSample =>
        /\ tick.tracked.isGestureActive = FALSE
        /\ tick.tracked.motionPositionHistory = <<>>
        /\ tick.tracked.activeMotionPattern = "NONE"

\* the reset happened while a gesture was active and a pattern was recognised
C17_Witness ==
    /\ InactiveSample
    /\ tick.start.isGestureActive
    /\ tick.start.activeMotionPattern = "CIRCLE_CLOCKWISE"
    /\ tick.tracked.motionPositionHistory = <<>>

\* the sample of this tick arrives more than gestureInactivityTimeout ms after
\* the last significant movement, which is when the newest buffered position
\* was recorded
AfterStalePeriod ==
    /\ FirstCall
    /\ Len(tick.start.motionPositionHistory) > 0
    /\ tick.at - tick.start.lastSignificantMovement > gestureInactivityTimeout

\* C18: a position recorded before a period of more than
\* gestureInactivityTimeout ms without significant movement (samples without
\* movement or no samples at all) never shares the motion position buffer
\* with a position recorded after that period.
C18_NoStalePositions ==
    AfterStalePeriod =>
        tick.tracked.motionPositionHistory
            \in {<<>>, <<tick.hand.wrist>>, tick.start.motionPositionHistory}

----------------------------------------------------------------------------
(* C19: the sequence matcher in the tick *)

\* the registered sequences that match the history the tick leaves
MatchingSequences ==
    {n \in 1..Len(tick.after.registeredSequences) :
        matchSequence(version, tick.after, tick.after.handPoseHistory,
                      tick.after.registeredSequences[n]).isMatch}

\* no gesture call of the tick comes after a sequence call
SequencesAfterGestures ==
    \A i, j \in 1..Len(tick.calls) :
        (tick.calls[i].kind = "sequence" /\ tick.calls[j].kind = "gesture") => j < i

\* C19: in every revision that accepts sequence registrations, a tick with a
\* hand sample runs the sequence matcher over handPoseHistory after its
\* gesture emission and calls the sequence listener for every registered
\* sequence that matches.
C19_SequencesMatchedEachTick ==
    (tick.kind = "hand" /\ tick.after.onGestureSequenceDetectedCallback) =>
        /\ SequencesAfterGestures
        /\ \A n \in MatchingSequences :
              \E i \in 1..Len(tick.calls) :
                  /\ tick.calls[i].kind = "sequence"
                  /\ tick.calls[i].id = tick.after.registeredSequences[n].id

----------------------------------------------------------------------------
(* Replay: a started detector of the main revision gets a sequence of       *)
(* samples, resetMotionTracking() is called, and the same samples arrive    *)
(* again with the same delays.  probe keeps what the two runs produced.     *)

ReplayLength == 2

ReplayScenario == CHOOSE sc \in Scenarios : sc.name = "main-debounce"

NoRun == [patterns |-> <<>>, calls |-> <<>>]

\* resetMotionTracking() of the revision
resetMotionTracking(v, d) ==
    IF v = "asm" THEN resetMotionTrackingASM(d) ELSE resetMotionTrackingMain(d)

\* id and score of the gesture listener calls among calls
GestureEvents(calls) ==
    [i \in 1..Len(GestureCalls(calls)) |->
        [id |-> GestureCalls(calls)[i].id, score |-> GestureCalls(calls)[i].score]]

InitReplay ==
    /\ scenario = ReplayScenario
    /\ version = scenario.version
    /\ det = [onGestureDetected(SetUp(scenario)) EXCEPT !.isRunning = TRUE]
    /\ now = ClockStart
    /\ loops = [i \in LoopIds |-> IF i = 1 THEN "await" ELSE "free"]
    /\ ticks = 0
    /\ tick = NoTick
    /\ prevTick = NoTick
    /\ prevEmit = NoEmit
    /\ \E samples \in [1..ReplayLength -> Inputs(scenario, 0)] :
          probe = [samples |-> samples, run |-> 1, this |-> NoRun, first |-> NoRun]

\* the next sample of the run arrives
ReplaySample ==
    /\ ticks < ReplayLength
    /\ LET in == probe.samples[ticks + 1]
           t == now + in.dt
           after == TickOf(version, det, in, t)
       IN  /\ det' = [after EXCEPT !.out = <<>>]
           /\ now' = t
           /\ probe' = [probe EXCEPT
                           !.this.patterns = Append(@, after.activeMotionPattern),
                           !.this.calls = Append(@, GestureEvents(after.out))]
    /\ ticks' = ticks + 1
    /\ UNCHANGED <<version, scenario, loops, tick, prevTick, prevEmit>>

\* resetMotionTracking() between the two runs
ResetBetweenRuns ==
    /\ ticks = ReplayLength
    /\ probe.run = 1
    /\ det' = resetMotionTracking(version, det)
    /\ probe' = [probe EXCEPT !.run = 2, !.first = probe.this, !.this = NoRun]
    /\ ticks' = 0
    /\ UNCHANGED <<version, scenario, now, loops, tick, prevTick, prevEmit>>

NextReplay == ReplaySample \/ ResetBetweenRuns

SpecReplay == InitReplay /\ [][NextReplay]_vars

\* C20: after resetMotionTracking() a replay of the same samples with the
\* same delays produces the same sequence of activeMotionPattern values and
\* the same sequence of gesture listener calls as the first run.
C20_ReplayAfterResetIdentical ==
    (probe.run = 2 /\ ticks = ReplayLength) =>
        /\ probe.this.patterns = probe.first.patterns
        /\ probe.this.calls = probe.first.calls

----------------------------------------------------------------------------
(* Clock adjustments: Date.now() is the wall clock.  Between two ticks the  *)
(* wall clock may be set back or forward once; probe keeps the real time    *)
(* and the real times of the last emission and of the last significant      *)
(* movement.                                                                *)

ClockJump == 1050

ClockScenarios == {sc \in Scenarios : sc.name \in {"main-debounce", "asm-history"}}

InitClock ==
    /\ scenario \in ClockScenarios
    /\ version = scenario.version
    /\ det = [SetUp(scenario) EXCEPT !.isRunning = TRUE]
    /\ now = ClockStart
    /\ loops = [i \in LoopIds |-> IF i = 1 THEN "await" ELSE "free"]
    /\ ticks = 0 - scenario.warm
    /\ tick = NoTick
    /\ prevTick = NoTick
    /\ prevEmit = NoEmit
    /\ probe = [real |-> 0, adjusted |-> FALSE, emitReal |-> 0 - 1, emitBefore |-> 0 - 1,
                sigReal |-> 0 - 1, sigBefore |-> 0 - 1]

\* onGestureDetected(callback), made when the warm-up is over
ClockSubscribe ==
    /\ ticks = 0
    /\ ~det.onGestureDetectedCallback
    /\ det' = onGestureDetected(det)
    /\ UNCHANGED <<probe, version, scenario, now, loops, ticks, tick, prevTick, prevEmit>>

\* the system clock is set back or forward
ClockAdjusted ==
    /\ ticks >= 0
    /\ det.onGestureDetectedCallback
    /\ ~probe.adjusted
    /\ \E by \in {0 - ClockJump, ClockJump} : now' = now + by
    /\ probe' = [probe EXCEPT !.adjusted = TRUE]
    /\ UNCHANGED <<version, scenario, det, loops, ticks, tick, prevTick, prevEmit>>

\* a tick: in.dt ms of real time after the one before
ClockSample ==
    /\ ticks < MaxTicks
    /\ ticks >= 0 => det.onGestureDetectedCallback
    /\ \E in \in Inputs(scenario, ticks) :
          LET t == now + in.dt
              real == probe.real + in.dt
              after == TickOf(version, det, in, t)
          IN  /\ Record(in, t, after, IF version = "asm" THEN "sleep" ELSE "raf")
              /\ probe' = [probe EXCEPT
                              !.real = real,
                              !.emitBefore = probe.emitReal,
                              !.emitReal = IF Len(GestureCalls(after.out)) > 0
                                           THEN real ELSE @,
                              !.sigBefore = probe.sigReal,
                              !.sigReal = IF after.lastSignificantMovement = t
                                          THEN real ELSE @]
    /\ UNCHANGED <<version, scenario, loops>>

NextClock == ClockSubscribe \/ ClockAdjusted \/ ClockSample

SpecClock == InitClock /\ [][NextClock]_vars

\* a gesture other than the one emitted last is emitted only after the cooldown
DifferentNotEarlier ==
    (version = "main" /\ prevEmit.some /\ Len(Emitted) > 0
        /\ Emitted[1].id # prevEmit.c.id)
    => probe.real - probe.emitBefore > gestureCooldownMsMain

\* and it is emitted by the first tick that selects it after the cooldown
DifferentAsSoonAs ==
    (version = "main" /\ tick.kind = "hand" /\ prevEmit.some /\ tick.best # NoGesture
        /\ tick.best.id # prevEmit.c.id
        /\ probe.real - probe.emitBefore > gestureCooldownMsMain)
    => Len(Emitted) > 0

\* the inactivity reset of the asm revision, in real time
InactivityInRealTime ==
    (FirstCall /\ Len(tick.start.motionPositionHistory) > 0
        /\ ~Significant(tick.hand.wrist,
                        tick.start.motionPositionHistory[Len(tick.start.motionPositionHistory)])
        /\ probe.sigBefore >= 0
        /\ probe.real - probe.sigBefore > gestureInactivityTimeout)
    => tick.tracked.motionPositionHistory = <<>> /\ ~tick.tracked.isGestureActive

\* C21: cooldown and inactivity decisions depend on elapsed real time only:
\* when the wall clock is set back or forward between two ticks, a different
\* gesture is emitted as soon as gestureCooldownMs of real time have passed
\* since the previous emission and never earlier, and the inactivity reset
\* comes after gestureInactivityTimeout of real time.
C21_ElapsedRealTimeDecides ==
    DifferentNotEarlier /\ DifferentAsSoonAs /\ InactivityInRealTime



----------------------------------------------------------------------------
(* Trajectories.  One behaviour of SpecGeo feeds the asm detector the       *)
(* points of one trajectory as the wrist of successive hands, the tests     *)
(* being computed on the buffer; when the trajectory is over, Classify      *)
(* applies each test to the whole trajectory.                               *)

P2(x, y) == Point(x, y, 0)

\* points on one straight line: start + k * dir for the multipliers k
Line(start, dir, ks) ==
    [i \in 1..Len(ks) |-> P2(start.x + ks[i] * dir.dx, start.y + ks[i] * dir.dy)]

Directions ==
    {[dx |-> 3, dy |-> 0], [dx |-> 0 - 3, dy |-> 0], [dx |-> 0, dy |-> 3],
     [dx |-> 0, dy |-> 0 - 3], [dx |-> 2, dy |-> 2], [dx |-> 0 - 2, dy |-> 3],
     [dx |-> 3, dy |-> 0 - 1], [dx |-> 0 - 4, dy |-> 0 - 1], [dx |-> 4, dy |-> 1],
     [dx |-> 1, dy |-> 0 - 4]}

Advances ==
    {<<0, 1, 2, 3>>, <<0, 1, 2, 3, 4, 5>>, <<0, 1, 2, 3, 4, 5, 6, 7>>,
     <<0, 1, 3, 4, 7, 8, 12, 13>>, <<0, 3, 4, 5, 9, 10, 11, 13>>}

Lines == {Line(P2(50, 50), dir, ks) : dir \in Directions, ks \in Advances}

\* 16 points, 22.5 degrees apart, on the circle of radius 20 about (50, 50),
\* rounded to the grid; the angle atan2(y - 50, x - 50) increases
CircleX == <<70, 68, 64, 58, 50, 42, 36, 32, 30, 32, 36, 42, 50, 58, 64, 68>>
CircleY == <<50, 58, 64, 68, 70, 68, 64, 58, 50, 42, 36, 32, 30, 32, 36, 42>>
\* 16 points, 12 degrees apart, on half of that circle
HalfCircleX == <<70, 70, 68, 66, 63, 60, 56, 52, 48, 44, 40, 37, 34, 32, 30, 30>>
HalfCircleY == <<50, 54, 58, 62, 65, 67, 69, 70, 70, 69, 67, 65, 62, 58, 54, 50>>
\* 16 points over 1.6 rad of the circle of radius 40 about (50, 50)
ArcX == <<90, 90, 89, 88, 86, 84, 82, 79, 76, 73, 69, 65, 61, 57, 53, 49>>
ArcY == <<50, 54, 58, 63, 67, 70, 74, 77, 80, 83, 85, 87, 88, 89, 90, 90>>

Along(xs, ys, first) ==
    [i \in 1..Len(xs) |-> P2(xs[((first + i - 2) % Len(xs)) + 1],
                              ys[((first + i - 2) % Len(xs)) + 1])]

Reversed(points) == [i \in 1..Len(points) |-> points[Len(points) + 1 - i]]

\* the trajectories on which the angle about the centre increases
Increasing ==
    {Along(CircleX, CircleY, first) : first \in {1, 6, 12}}
    \cup {Along(HalfCircleX, HalfCircleY, 1), Along(ArcX, ArcY, 1)}

Circles == Increasing \cup {Reversed(points) : points \in Increasing}

\* a Z: right, down and back to the left, right again
ZShape == <<P2(40, 40), P2(46, 40), P2(52, 40), P2(47, 46), P2(42, 52), P2(48, 52), P2(54, 52)>>
\* a W drawn from left to right
WShape == <<P2(40, 50), P2(44, 56), P2(48, 50), P2(52, 56), P2(56, 50), P2(60, 56)>>
\* a V: down to the right, then up to the right, turning by more than 90 degrees
VShape == <<P2(40, 40), P2(44, 44), P2(48, 48), P2(51, 43), P2(54, 38)>>
\* fast strokes down and up, as of hands that clap
Strokes == <<P2(50, 20), P2(50, 60), P2(50, 20), P2(50, 60), P2(50, 20)>>

\* a wide W
WideW == <<P2(20, 50), P2(32, 56), P2(44, 50), P2(56, 56), P2(68, 50), P2(80, 56)>>
\* steep teeth that drift to the right and end in a horizontal stroke
Saw == <<P2(20, 50), P2(26, 56), P2(28, 48), P2(34, 54), P2(36, 46), P2(42, 52), P2(50, 52)>>

\* upright teeth that end in a horizontal stroke
Teeth == <<P2(20, 50), P2(22, 64), P2(24, 50), P2(26, 64), P2(28, 50), P2(30, 64), P2(38, 64)>>

Shapes == {ZShape, WShape, VShape, Strokes, WideW, Saw, Teeth}

\* the time between two samples of a trajectory
SampleTimes == {1, motionSamplingRate}

Trajectories == [points : Lines \cup Circles \cup Shapes, dt : SampleTimes]

\* what the five tests of detectMotionPattern return on a buffer
TestsOn(history, lastMotionSampleTime) ==
    LET circularResult == detectCircularMotionASM(history)
    IN  [NoGeo EXCEPT
            !.circular = IF ~circularResult.detected THEN "no"
                         ELSE IF circularResult.clockwise THEN "cw" ELSE "ccw",
            !.zigzag = detectZigzagMotion(history),
            !.clap = detectTwoHandClap(history, lastMotionSampleTime),
            !.wshape = detectWShapeMotion(history),
            !.vshape = detectVShapeMotion(history)]

\* without registered gestures no emission takes the buffer away; with them a
\* recognised pattern is emitted and the buffer starts again
GeoScenarios ==
    {Scenario("trajectory", "asm", 0, <<>>, <<>>, {openRight},
              {"none"}, SampleTimes, {NoGeo}, {"returns"}, 1, FALSE),
     Scenario("trajectory-gestures", "asm", 0, <<circleClockwise, zigzagMotion>>, <<>>,
              {openRight}, {"none"}, SampleTimes, {NoGeo}, {"returns"}, 1, FALSE)}

NoTests ==
    [circular |-> [detected |-> FALSE, clockwise |-> FALSE],
     circularMain |-> [detected |-> FALSE, clockwise |-> FALSE],
     zigzag |-> FALSE, clap |-> FALSE, wShape |-> FALSE, vShape |-> FALSE]

InitGeo ==
    /\ scenario \in GeoScenarios
    /\ version = scenario.version
    /\ det = [onGestureDetected(SetUp(scenario)) EXCEPT !.isRunning = TRUE]
    /\ now = ClockStart
    /\ loops = [i \in LoopIds |-> IF i = 1 THEN "await" ELSE "free"]
    /\ ticks = 0
    /\ tick = NoTick
    /\ prevTick = NoTick
    /\ prevEmit = NoEmit
    /\ \E trajectory \in Trajectories :
          probe = [points |-> trajectory.points, dt |-> trajectory.dt,
                   applied |-> FALSE, tests |-> NoTests]

\* the next point of the trajectory arrives as the wrist of the hand; the
\* tests are those on the buffer that the classification runs of the tick see
GeoSample ==
    /\ ticks < Len(probe.points)
    /\ LET res == [kind |-> "hand",
                   hand |-> [openRight EXCEPT !.wrist = probe.points[ticks + 1]]]
           t == now + probe.dt
           seen == SelectionState(version, det,
                                  [res |-> res, dt |-> probe.dt, geo |-> NoGeo,
                                   helper |-> "returns"], t)
           in == [res |-> res, dt |-> probe.dt,
                  geo |-> TestsOn(seen.motionPositionHistory, seen.lastMotionSampleTime),
                  helper |-> "returns"]
           after == TickOf(version, det, in, t)
       IN  Record(in, t, after, "sleep")
    /\ UNCHANGED <<version, scenario, loops, probe>>

\* each test applied to the whole trajectory as the buffer
Classify ==
    /\ ticks = Len(probe.points)
    /\ ~probe.applied
    /\ probe' = [probe EXCEPT
                    !.applied = TRUE,
                    !.tests = [circular |-> detectCircularMotionASM(probe.points),
                               circularMain |-> detectCircularMotionMain(probe.points),
                               zigzag |-> detectZigzagMotion(probe.points),
                               clap |-> detectTwoHandClap(probe.points,
                                                          det.lastMotionSampleTime),
                               wShape |-> detectWShapeMotion(probe.points),
                               vShape |-> detectVShapeMotion(probe.points)]]
    /\ UNCHANGED <<version, scenario, det, now, loops, ticks, tick, prevTick, prevEmit>>

NextGeo == GeoSample \/ Classify

SpecGeo == InitGeo /\ [][NextGeo]_vars



----------------------------------------------------------------------------
(* Properties of the trajectory tests *)

\* the points lie on one straight line and advance along it without reversal
IsMonotonicLine(points) ==
    /\ Len(points) >= 2
    /\ \A i \in 2..Len(points) :
          /\ Cross(Step(points, i), Step(points, 2)) = 0
          /\ Dot(Step(points, i), Step(points, 2)) > 0

\* C22: on a trajectory whose points lie on one straight line and advance
\* monotonically along it, detectZigzagMotion, detectVShapeMotion and
\* detectWShapeMotion return false, and while the trajectory is fed to the
\* detector activeMotionPattern is never ZIGZAG, V_SHAPE or W_SHAPE
C22_StraightLineIsNoZigzagVW ==
    IsMonotonicLine(probe.points) =>
        /\ det.activeMotionPattern \notin {"ZIGZAG", "V_SHAPE", "W_SHAPE"}
        /\ probe.applied =>
              /\ ~probe.tests.zigzag
              /\ ~probe.tests.vShape
              /\ ~probe.tests.wShape

\* a slanted line of eight points at uneven distances has been fed and classified
C22_Witness ==
    /\ probe.applied
    /\ IsMonotonicLine(probe.points)
    /\ Len(probe.points) = 8
    /\ Len(det.registeredGestures) = 2
    /\ det.motionPositionHistory = probe.points
    /\ Step(probe.points, 2).dx < 0 /\ Step(probe.points, 2).dy > 0
    /\ Step(probe.points, 3) # Step(probe.points, 2)


\* the whole trajectory has been fed and is the buffer
Fed == ticks = Len(probe.points) /\ det.motionPositionHistory = probe.points

\* C23: a trajectory sampled uniformly around a circle (at least 15 points, a
\* sweep of at least 1.5 rad) is classified as the clockwise circle when
\* traversed clockwise and as the counter-clockwise circle in reverse order,
\* by the asm revision and by detectCircularMotion of the main revision; the
\* positions are image coordinates (y grows downwards), in which a clockwise
\* traversal is one of increasing angle about the centre
C23_CircleClassifiedByDirection ==
    /\ probe.points \in Increasing =>
          /\ Fed => det.activeMotionPattern = "CIRCLE_CLOCKWISE"
          /\ probe.applied =>
                probe.tests.circularMain = [detected |-> TRUE, clockwise |-> TRUE]
    /\ Reversed(probe.points) \in Increasing =>
          /\ Fed => det.activeMotionPattern = "CIRCLE_COUNTERCLOCKWISE"
          /\ probe.applied =>
                probe.tests.circularMain = [detected |-> TRUE, clockwise |-> FALSE]


----------------------------------------------------------------------------
(* C24 to C27: the activity state machine and the classification of the asm *)
(* revision                                                                 *)

\* the sample of this tick is no further than movementThreshold from the
\* last buffered position, and no more than gestureInactivityTimeout ms have
\* passed since the last significant movement
HesitantSample ==
    /\ FirstCall
    /\ Len(tick.start.motionPositionHistory) > 0
    /\ LET last == tick.start.motionPositionHistory[Len(tick.start.motionPositionHistory)]
           dx == tick.hand.wrist.x - last.x
           dy == tick.hand.wrist.y - last.y
           dz == tick.hand.wrist.z - last.z
       IN  dx * dx + dy * dy + dz * dz <= movementThreshold * movementThreshold
    /\ tick.at - tick.start.lastSignificantMovement <= gestureInactivityTimeout

\* C24: when the buffer is non-empty, the sample did not move beyond
\* movementThreshold and no more than gestureInactivityTimeout ms have passed
\* since the last significant movement, the call of trackHandMotion leaves
\* isGestureActive, the motion position buffer, activeMotionPattern and
\* lastSignificantMovement unchanged.
C24_HesitationTolerated ==
    HesitantSample =>
        /\ tick.tracked.isGestureActive = tick.start.isGestureActive
        /\ tick.tracked.motionPositionHistory = tick.start.motionPositionHistory
        /\ tick.tracked.activeMotionPattern = tick.start.activeMotionPattern
        /\ tick.tracked.lastSignificantMovement = tick.start.lastSignificantMovement

\* a sample hesitated while a gesture was active and a pattern was recognised
C24_Witness ==
    /\ HesitantSample
    /\ tick.n >= 1
    /\ tick.start.isGestureActive
    /\ tick.start.activeMotionPattern = "CIRCLE_CLOCKWISE"
    /\ Len(tick.start.motionPositionHistory) >= 5
    /\ tick.tracked.activeMotionPattern = "CIRCLE_CLOCKWISE"


\* C25: in the asm revision activeMotionPattern different from NONE implies
\* that the motion position buffer holds at least 5 positions and
\* isGestureActive is true, in every state of the detector between and
\* within the ticks; with fewer positions the pattern is NONE.
C25_ClassificationGated ==
    version = "asm" =>
        \A d \in IF tick.n = 0 THEN {det}
                  ELSE {det, tick.start, tick.tracked, tick.before, tick.after} :
            d.activeMotionPattern # "NONE" =>
                Len(d.motionPositionHistory) >= 5 /\ d.isGestureActive

\* a tick whose trajectory tests are positive found fewer than 5 positions
\* and left the pattern at NONE; an earlier state holds a pattern
C25_Witness ==
    /\ version = "asm"
    /\ tick.kind = "hand"
    /\ tick.n >= 1
    /\ tick.start.activeMotionPattern # "NONE"
    /\ Len(tick.before.motionPositionHistory) \in 1..4
    /\ tick.before.isGestureActive
    /\ tick.before.activeMotionPattern = "NONE"


\* the pattern of the first positive test in the order circular, zigzag,
\* two-hand clap, W-shape, V-shape
FirstPositive(tests) ==
    IF tests.circular.detected
    THEN IF tests.circular.clockwise THEN "CIRCLE_CLOCKWISE" ELSE "CIRCLE_COUNTERCLOCKWISE"
    ELSE IF tests.zigzag THEN "ZIGZAG"
    ELSE IF tests.clap THEN "TWO_HAND_CLAP"
    ELSE IF tests.wShape THEN "W_SHAPE"
    ELSE IF tests.vShape THEN "V_SHAPE"
    ELSE "NONE"

\* C26: on a buffer of at least 5 positions on which some test is positive,
\* detectMotionPattern sets activeMotionPattern to the pattern of the first
\* positive test in the order circular, zigzag, two-hand clap, W-shape,
\* V-shape: a pattern is reported only when every test before it is negative
\* on the same buffer.
C26_FirstPositiveTestWins ==
    (Fed /\ probe.applied /\ Len(probe.points) >= 5
         /\ FirstPositive(probe.tests) # "NONE")
        => det.activeMotionPattern = FirstPositive(probe.tests)

\* the zigzag and the W test are positive on the buffer, the circular one is
\* not, and ZIGZAG is reported
C26_Witness ==
    /\ Fed
    /\ probe.applied
    /\ ~probe.tests.circular.detected
    /\ probe.tests.zigzag
    /\ probe.tests.wShape
    /\ det.activeMotionPattern = "ZIGZAG"


----------------------------------------------------------------------------
(* The grace period.  SpecGrace runs the asm detector, after a warm-up that *)
(* fills the buffer, on samples 400 or 800 ms apart that move or hesitate,  *)
(* with trajectory tests that match or do not, and records when a test last *)
(* matched and when the first run after it did not.                         *)

MaxGraceTicks == 4

GraceScenario ==
    Scenario("asm-grace", "asm", 5, <<>>, <<>>, {openRight, fistRight, fistNear}, {"none"},
             {400, 800}, {NoGeo, Geo("cw", FALSE, FALSE)}, {"returns"}, 1, FALSE)

NoGrace == [matched |-> 0 - 1, missed |-> 0 - 1, pattern |-> "NONE"]

InitGrace ==
    /\ scenario = GraceScenario
    /\ version = scenario.version
    /\ det = [SetUp(scenario) EXCEPT !.isRunning = TRUE]
    /\ now = ClockStart
    /\ loops = [i \in LoopIds |-> IF i = 1 THEN "await" ELSE "free"]
    /\ ticks = 0 - scenario.warm
    /\ tick = NoTick
    /\ prevTick = NoTick
    /\ prevEmit = NoEmit
    /\ probe = NoGrace

\* one tick; a classification run is one of detectMotionPattern on a buffer
\* of at least 5 positions
GraceSample ==
    /\ ticks < MaxGraceTicks
    /\ \E in \in Inputs(scenario, ticks) :
          LET t == now + in.dt
              after == TickOf(version, det, in, t)
              ds == SelectionState(version, det, in, t)
              ran == in.res.kind = "hand" /\ Len(ds.motionPositionHistory) >= 5
              matched == ran /\ in.geo.circular # "no"
          IN  /\ Record(in, t, after, "sleep")
              /\ probe' = IF in.res.kind # "hand" THEN probe
                          ELSE IF ~ran THEN NoGrace
                          ELSE IF matched
                               THEN [matched |-> t, missed |-> 0 - 1,
                                     pattern |-> ds.activeMotionPattern]
                          ELSE IF probe.matched >= 0 /\ probe.missed < 0
                               THEN [probe EXCEPT !.missed = t]
                          ELSE probe
    /\ UNCHANGED <<version, scenario, loops>>

NextGrace == GraceSample

SpecGrace == InitGrace /\ [][NextGrace]_vars

\* the classification runs of this tick did not match, on a buffer that holds
\* the positions on which a test last matched
MissedRun ==
    /\ version = "asm"
    /\ tick.kind = "hand"
    /\ Len(tick.before.motionPositionHistory) >= 5
    /\ probe.matched >= 0
    /\ probe.missed >= 0

\* C27: if activeMotionPattern is not NONE and no test has matched on any
\* classification run for longer than patternGraceMs, the pattern is reset to
\* NONE, also while samples with significant movement keep arriving; a
\* non-matching run within patternGraceMs of the last match leaves the
\* pattern unchanged.
C27_PatternResetAfterGrace ==
    MissedRun =>
        /\ tick.at - probe.missed > patternGraceMs
               => tick.before.activeMotionPattern = "NONE"
        /\ tick.at - probe.matched <= patternGraceMs
               => tick.before.activeMotionPattern = probe.pattern


----------------------------------------------------------------------------
(* C28, C29: the V-shape and the two-hand-clap test *)

\* what the loop of detectVShapeMotion counts on the points
VShapeCounts(points) ==
    VShapeLoop(points, 2, [diagonalSegments |-> 0, lastDirection |-> NoDirection,
                           totalMovement |-> 0, directionChanges |-> 0])

\* at least 4 points with a diagonal segment, a direction change of more
\* than 90 degrees and a path longer than the movement floor
VShapeCase(points) ==
    /\ Len(points) >= 4
    /\ \E i \in 2..Len(points) :
          LET s == Step(points, i)
          IN  10 * Abs(s.dy) > 4 * Abs(s.dx) /\ s.dx * s.dx + s.dy * s.dy > 1
    /\ VShapeCounts(points).directionChanges >= 1
    /\ VShapeCounts(points).totalMovement > 10 * Fine

\* no test before the named one in the cascade is positive
NothingBefore(pattern) ==
    /\ ~probe.tests.circular.detected
    /\ ~probe.tests.zigzag
    /\ pattern = "V_SHAPE" => ~probe.tests.clap /\ ~probe.tests.wShape

\* C28: for a buffer of at least 4 points that contains at least one
\* diagonal segment, at least one direction change of more than 90 degrees
\* and a total path length above the movement floor, detectVShapeMotion
\* returns true, and V_SHAPE is reported when all tests before it are
\* negative on the buffer.
C28_VShapeDetectable ==
    (probe.applied /\ VShapeCase(probe.points)) =>
        /\ probe.tests.vShape
        /\ (Fed /\ Len(probe.points) >= 5 /\ NothingBefore("V_SHAPE"))
               => det.activeMotionPattern = "V_SHAPE"

\* the vertical and the horizontal movement of the points
VerticalMovement(points) ==
    SumOf([i \in 1..(Len(points) - 1) |-> Abs(points[i + 1].y - points[i].y)], 1)
HorizontalMovement(points) ==
    SumOf([i \in 1..(Len(points) - 1) |-> Abs(points[i + 1].x - points[i].x)], 1)

\* at least 4 points, sampled dt ms apart, whose peak vertical speed and
\* total vertical movement exceed their floors and whose vertical movement
\* is more than 1.5 times the horizontal one
ClapCase(points, dt) ==
    /\ Len(points) >= 4
    /\ \E i \in 2..Len(points) :
          RatGT(Rat(Abs(points[i].y - points[i - 1].y), dt), Rat(30, 1))
    /\ VerticalMovement(points) > 8
    /\ 20 * VerticalMovement(points) > 30 * HorizontalMovement(points) + 3

\* C29: for a buffer of at least 4 points whose peak per-step vertical speed
\* and total vertical movement exceed their floors and whose ratio of
\* vertical to horizontal movement exceeds 1.5, detectTwoHandClap returns
\* true, and TWO_HAND_CLAP is reported when the circular and the zigzag test
\* are negative.
C29_TwoHandClapDetectable ==
    (probe.applied /\ ClapCase(probe.points, probe.dt)) =>
        /\ probe.tests.clap
        /\ (Fed /\ Len(probe.points) >= 5 /\ NothingBefore("TWO_HAND_CLAP"))
               => det.activeMotionPattern = "TWO_HAND_CLAP"


----------------------------------------------------------------------------
(* C30: the gesture listener of the asm revision *)

\* C30: in the asm revision any two invocations of the gesture listener are
\* at least gestureCooldownMs apart: the listener is invoked at most once on
\* a tick, and an invocation comes no sooner than gestureCooldownMs after
\* the one before it.
C30_ListenerCallsCooldownApart ==
    version = "asm" =>
        LET calls == GestureCalls(tick.calls)
        IN  /\ Len(calls) <= 1
            /\ (Len(calls) > 0 /\ prevEmit.some)
                   => calls[1].at - prevEmit.c.at >= gestureCooldownMsASM

----------------------------------------------------------------------------
(* C31: the no-hand reset of the main revision *)

\* a tick of the main revision without a hand, more than noHandResetMs after
\* the last position was sampled
HandGoneLong ==
    /\ version = "main"
    /\ tick.n >= 1
    /\ tick.kind = "none"
    /\ tick.start.motionTrackingEnabled
    /\ tick.at - tick.start.lastMotionSampleTime > noHandResetMs

\* C31: in the main revision, when a tick yields no hand and more than
\* 1000 ms have elapsed since the last motion position was sampled, the
\* motion position buffer is emptied and activeMotionPattern is cleared on
\* that tick.
C31_NoHandResetsMotionTracking ==
    HandGoneLong =>
        /\ tick.after.motionPositionHistory = <<>>
        /\ tick.after.activeMotionPattern = Null

----------------------------------------------------------------------------
(* C32: how often the main revision classifies *)

\* trackHandMotion sampled the position of the tick
SampledOn(tk) ==
    /\ tk.kind = "hand"
    /\ tk.start.motionTrackingEnabled
    /\ tk.tracked.lastMotionSampleTime = tk.at
    /\ tk.tracked.motionPositionHistory # tk.start.motionPositionHistory

\* the classification ran in trackHandMotion and gave another pattern; in
\* trackHandMotion only detectMotionPattern assigns activeMotionPattern
ReclassifiedOn(tk) ==
    SampledOn(tk) /\ tk.tracked.activeMotionPattern # tk.start.activeMotionPattern

\* C32: in the main revision a position is sampled only when at least
\* motionSamplingRate ms have passed since the last one, and classification
\* runs once for every 10 positions sampled, also when the 30-position
\* buffer is full: two successive samples are never both classified.
C32_ClassifiedEveryTenSamples ==
    (version = "main" /\ tick.n >= 2) =>
        /\ SampledOn(tick) =>
               tick.at - tick.start.lastMotionSampleTime >= motionSamplingRate
        /\ ~(ReclassifiedOn(prevTick) /\ ReclassifiedOn(tick))

----------------------------------------------------------------------------
(* C33: activity flag and buffer in the asm revision *)

FlagAgreesWithBuffer(d) == d.isGestureActive <=> Len(d.motionPositionHistory) > 0

\* C33: in the asm revision, after every call of trackHandMotion (from
\* detectHandPose and from detectGestures) and of resetMotionTracking,
\* isGestureActive is true exactly when the motion position buffer is
\* non-empty.
C33_ActiveIffBufferNonEmpty ==
    version = "asm" =>
        /\ FlagAgreesWithBuffer(det)
        /\ tick.n # 0 =>
               /\ FlagAgreesWithBuffer(tick.start)
               /\ FlagAgreesWithBuffer(tick.tracked)
               /\ FlagAgreesWithBuffer(tick.before)
               /\ FlagAgreesWithBuffer(tick.after)

\* the first call of the tick ended an active gesture by inactivity and the
\* second call started a new one with the same sample
C33_Witness ==
    /\ version = "asm"
    /\ tick.start.isGestureActive
    /\ Len(tick.start.motionPositionHistory) >= 5
    /\ ~tick.tracked.isGestureActive
    /\ tick.tracked.motionPositionHistory = <<>>
    /\ tick.before.isGestureActive
    /\ tick.before.motionPositionHistory = <<tick.hand.wrist>>

----------------------------------------------------------------------------
(* C34: what ends the loop *)

\* C34: the detection loop never stops on its own: a tick that starts with
\* isRunning true leaves isRunning true and its loop scheduled, whatever
\* estimateHands, the listeners or the helpers called in the loop body do;
\* only stopDetection() or dispose() clear the flag.
C34_LoopNeverStopsItself ==
    (tick.n # 0 /\ tick.start.isRunning) =>
        /\ tick.after.isRunning
        /\ tick.next # "free"

----------------------------------------------------------------------------
(* C35: motion-typed steps of a sequence, on the direct calls of SpecSeq *)

Steps == 1..StepCount

\* two motion-typed steps name different patterns
TwoDifferentPatterns ==
    \E j, k \in Steps :
        /\ IsMotionTyped(TheSequence.gestures[j])
        /\ IsMotionTyped(TheSequence.gestures[k])
        /\ TheSequence.gestures[j].motionPattern # TheSequence.gestures[k].motionPattern

\* every step is motion-typed and names the pattern that is active
AllStepsActive ==
    /\ StepCount >= 1
    /\ \A j \in Steps :
          /\ IsMotionTyped(TheSequence.gestures[j])
          /\ TheSequence.gestures[j].motionPattern = det.activeMotionPattern

AllStepsTakeRightHand ==
    \A j \in Steps : TheSequence.gestures[j].handRequired \in {"any", "right"}

\* the searched windows whose samples are all of the right hand
RightHandedWindows ==
    {i \in SearchedOffsets :
        \A j \in Steps : det.handPoseHistory[i + j - 1].handedness = "right"}

\* C35 as stated: a sequence with two motion-typed steps of different
\* patterns is never reported as matched, and a sequence whose steps all
\* carry the active pattern matches every window of right-handed samples
\* whatever the samples hold.
C35_MotionStepsIgnoreSamples ==
    probe.applied =>
        /\ TwoDifferentPatterns => ~probe.isMatch
        /\ AllStepsActive =>
               /\ \A i \in RightHandedWindows : FullyMatches(i)
               /\ RightHandedWindows # {} => probe.isMatch

\* C35, amended: a sequence with two motion-typed steps of different patterns
\* is never reported as matched; a sequence whose steps all carry the active
\* pattern and all accept the right hand (handRequired right or any) matches
\* every window of right-handed samples whatever the samples hold.
C35_MotionStepsUseActivePattern ==
    probe.applied =>
        /\ TwoDifferentPatterns => ~probe.isMatch
        /\ (AllStepsActive /\ AllStepsTakeRightHand) =>
               /\ \A i \in RightHandedWindows : FullyMatches(i)
               /\ RightHandedWindows # {} => probe.isMatch

\* a match of a two-step sequence of the active pattern on a history whose
\* only right-handed window holds hands that show neither step's fingers
C35_Witness ==
    /\ probe.applied
    /\ probe.isMatch
    /\ StepCount = MaxSteps
    /\ AllStepsActive
    /\ AllStepsTakeRightHand
    /\ Cardinality(RightHandedWindows) = 1
    /\ \A i \in RightHandedWindows : \A j \in Steps :
          ~StaticMatch(det.handPoseHistory[i + j - 1], TheSequence.gestures[j]).isMatch

----------------------------------------------------------------------------
(* C36: sequence notifications of the main revision *)

\* the offsets of the windows of the sequence's length inside the most recent
\* 3k samples of the history the tick leaves
RecentOffsets(sequence) ==
    LET n == Len(tick.after.handPoseHistory)
        k == Len(sequence.gestures)
        lo == IF n > 3 * k THEN n - 3 * k ELSE 0
    IN  (lo + 1)..(n - k + 1)

WindowMatchesAt(sequence, i) ==
    \A j \in 1..Len(sequence.gestures) :
        matchGesture(version, tick.after, tick.after.handPoseHistory[i + j - 1],
                     sequence.gestures[j]).isMatch

SequenceCallsFor(calls, sequence) ==
    SelectSeq(calls, LAMBDA c : c.kind = "sequence" /\ c.id = sequence.id)

SequenceTick ==
    /\ version = "main"
    /\ tick.n >= 1
    /\ tick.kind = "hand"
    /\ tick.after.onGestureSequenceDetectedCallback

NonEmptySequences ==
    {n \in 1..Len(tick.after.registeredSequences) :
        Len(tick.after.registeredSequences[n].gestures) >= 1}

----------------------------------------------------------------------------
(* C37: sequences without steps *)

ZeroStepSequences ==
    {n \in 1..Len(tick.after.registeredSequences) :
        Len(tick.after.registeredSequences[n].gestures) = 0}

\* C37: a registered sequence with zero steps is never reported as matched:
\* on the pose history of every tick matchSequence returns isMatch = false
\* for it, and no tick invokes the sequence callback for it.
C37_ZeroStepSequenceNeverMatches ==
    \A n \in ZeroStepSequences :
        LET sequence == tick.after.registeredSequences[n]
        IN  /\ ~matchSequence(version, tick.after, tick.after.handPoseHistory,
                              sequence).isMatch
            /\ Len(SequenceCallsFor(tick.calls, sequence)) = 0

\* a tick with a hand and a full pose history on which detectSequences
\* notified a sequence registered after the zero-step one
C37_Witness ==
    /\ tick.kind = "hand"
    /\ tick.after.onGestureSequenceDetectedCallback
    /\ Len(tick.after.handPoseHistory) = historyLength
    /\ 1 \in ZeroStepSequences
    /\ Len(tick.after.registeredSequences) = 2
    /\ Len(SequenceCallsFor(tick.calls, tick.after.registeredSequences[2])) = 1

=============================================================================
